---- MODULE Spec2Model ----
(***************************************************************************)
(* mssqlgen: generation of a StepZen GraphQL schema from the metadata of   *)
(* a Microsoft SQL Server database.  The module models the command line    *)
(* entry points (src/cli.ts), MSSQLSchemaGenerator (src/core/generator.ts),*)
(* the parts of SchemaGenerator and TypeMapper it calls, and the metadata  *)
(* provider DatabaseConnector as seen by its callers.                      *)
(*                                                                         *)
(* Strings of the program are sequences of one-character strings, so that  *)
(* case conversion, splitting and pattern matching are computed as the     *)
(* code computes them.                                                     *)
(***************************************************************************)
EXTENDS Integers, Sequences, FiniteSets, TLC

(***************************************************************************)
(* JavaScript string primitives                                            *)
(***************************************************************************)
Lowers ==
  << "a","b","c","d","e","f","g","h","i","j","k","l","m",
     "n","o","p","q","r","s","t","u","v","w","x","y","z" >>

Uppers ==
  << "A","B","C","D","E","F","G","H","I","J","K","L","M",
     "N","O","P","Q","R","S","T","U","V","W","X","Y","Z" >>

LetterIndex(c, letters) ==
  CHOOSE i \in 1..Len(letters) : letters[i] = c

IsUpper(c) ==
  \E i \in 1..Len(Uppers) : Uppers[i] = c

IsLower(c) ==
  \E i \in 1..Len(Lowers) : Lowers[i] = c

toLowerChar(c) ==
  IF IsUpper(c) THEN Lowers[LetterIndex(c, Uppers)] ELSE c

toUpperChar(c) ==
  IF IsLower(c) THEN Uppers[LetterIndex(c, Lowers)] ELSE c

\* String.prototype.toLowerCase
toLowerCase(s) ==
  IF s = <<>> THEN <<>> ELSE [i \in 1..Len(s) |-> toLowerChar(s[i])]

\* The upper-case mapping of one character: the sharp s has no single
\* upper-case character and maps to two (Unicode SpecialCasing, which
\* String.prototype.toUpperCase applies)
toUpperChars(c) ==
  IF c = "ß" THEN << "S", "S" >> ELSE << toUpperChar(c) >>

RECURSIVE toUpperCase(_)
\* String.prototype.toUpperCase
toUpperCase(s) ==
  IF s = <<>> THEN <<>> ELSE toUpperChars(Head(s)) \o toUpperCase(Tail(s))

\* String.prototype.slice(from) with a 0-based, non-negative from
sliceFrom(s, from) ==
  IF from >= Len(s) THEN <<>> ELSE SubSeq(s, from + 1, Len(s))

\* String.prototype.charAt(0): the empty string when s is empty
charAt0(s) ==
  IF s = <<>> THEN <<>> ELSE <<s[1]>>

\* String.prototype.includes(ch) for a one-character ch
includes(s, ch) ==
  \E i \in 1..Len(s) : s[i] = ch

\* String.prototype.endsWith
endsWith(s, suffix) ==
  /\ Len(suffix) <= Len(s)
  /\ SubSeq(s, Len(s) - Len(suffix) + 1, Len(s)) = suffix

\* String.prototype.split(sep) for a one-character separator
RECURSIVE split(_, _)
split(s, sep) ==
  IF ~includes(s, sep)
    THEN << s >>
    ELSE LET k == CHOOSE i \in 1..Len(s) :
                    /\ s[i] = sep
                    /\ \A j \in 1..(i - 1) : s[j] # sep
         IN  << SubSeq(s, 1, k - 1) >> \o split(sliceFrom(s, k), sep)

\* Array.prototype.join('')
RECURSIVE joinAll(_)
joinAll(parts) ==
  IF parts = <<>> THEN <<>> ELSE Head(parts) \o joinAll(Tail(parts))

\* The elements of a sequence
Range(seq) ==
  { seq[i] : i \in 1..Len(seq) }

(***************************************************************************)
(* TypeMapper (src/utils/type-mapper.ts)                                   *)
(***************************************************************************)
TYPE_MAP ==
  << [key |-> <<"i","n","t">>, value |-> <<"I","n","t">>],
     [key |-> <<"b","i","g","i","n","t">>, value |-> <<"I","n","t">>],
     [key |-> <<"s","m","a","l","l","i","n","t">>, value |-> <<"I","n","t">>],
     [key |-> <<"t","i","n","y","i","n","t">>, value |-> <<"I","n","t">>],
     [key |-> <<"d","e","c","i","m","a","l">>, value |-> <<"F","l","o","a","t">>],
     [key |-> <<"n","u","m","e","r","i","c">>, value |-> <<"F","l","o","a","t">>],
     [key |-> <<"m","o","n","e","y">>, value |-> <<"F","l","o","a","t">>],
     [key |-> <<"s","m","a","l","l","m","o","n","e","y">>, value |-> <<"F","l","o","a","t">>],
     [key |-> <<"f","l","o","a","t">>, value |-> <<"F","l","o","a","t">>],
     [key |-> <<"r","e","a","l">>, value |-> <<"F","l","o","a","t">>],
     [key |-> <<"v","a","r","c","h","a","r">>, value |-> <<"S","t","r","i","n","g">>],
     [key |-> <<"n","v","a","r","c","h","a","r">>, value |-> <<"S","t","r","i","n","g">>],
     [key |-> <<"c","h","a","r">>, value |-> <<"S","t","r","i","n","g">>],
     [key |-> <<"n","c","h","a","r">>, value |-> <<"S","t","r","i","n","g">>],
     [key |-> <<"t","e","x","t">>, value |-> <<"S","t","r","i","n","g">>],
     [key |-> <<"n","t","e","x","t">>, value |-> <<"S","t","r","i","n","g">>],
     [key |-> <<"b","i","t">>, value |-> <<"B","o","o","l","e","a","n">>],
     [key |-> <<"d","a","t","e">>, value |-> <<"S","t","r","i","n","g">>],
     [key |-> <<"d","a","t","e","t","i","m","e">>, value |-> <<"S","t","r","i","n","g">>],
     [key |-> <<"d","a","t","e","t","i","m","e","2">>, value |-> <<"S","t","r","i","n","g">>],
     [key |-> <<"s","m","a","l","l","d","a","t","e","t","i","m","e">>, value |-> <<"S","t","r","i","n","g">>],
     [key |-> <<"t","i","m","e">>, value |-> <<"S","t","r","i","n","g">>],
     [key |-> <<"d","a","t","e","t","i","m","e","o","f","f","s","e","t">>, value |-> <<"S","t","r","i","n","g">>],
     [key |-> <<"b","i","n","a","r","y">>, value |-> <<"S","t","r","i","n","g">>],
     [key |-> <<"v","a","r","b","i","n","a","r","y">>, value |-> <<"S","t","r","i","n","g">>],
     [key |-> <<"i","m","a","g","e">>, value |-> <<"S","t","r","i","n","g">>],
     [key |-> <<"u","n","i","q","u","e","i","d","e","n","t","i","f","i","e","r">>, value |-> <<"I","D">>],
     [key |-> <<"x","m","l">>, value |-> <<"S","t","r","i","n","g">>],
     [key |-> <<"j","s","o","n">>, value |-> <<"J","S","O","N">>],
     [key |-> <<"s","q","l","_","v","a","r","i","a","n","t">>, value |-> <<"S","t","r","i","n","g">>],
     [key |-> <<"t","i","m","e","s","t","a","m","p">>, value |-> <<"S","t","r","i","n","g">>],
     [key |-> <<"r","o","w","v","e","r","s","i","o","n">>, value |-> <<"S","t","r","i","n","g">>] >>

\* TYPE_MAP is an object literal, so TYPE_MAP[key] also finds what the
\* literal inherits from Object.prototype. Of the inherited members only these
\* two have a name without a capital letter, the only names a lower-cased key
\* can be equal to; both are objects, hence truthy, and are no strings: they
\* are written here as a one-element sequence holding their description
ObjectPrototype ==
  << [key |-> <<"c","o","n","s","t","r","u","c","t","o","r">>,
      value |-> << "function Object" >>],
     [key |-> <<"_","_","p","r","o","t","o","_","_">>,
      value |-> << "Object.prototype" >>] >>

\* obj[key]: the own property, else the inherited one, else undefined (<<>>)
propertyOf(own, key) ==
  LET members == own \o ObjectPrototype
      hits == { i \in 1..Len(members) : members[i].key = key }
  IN  IF hits = {} THEN <<>>
      ELSE members[CHOOSE i \in hits : \A j \in hits : i <= j].value

\* TypeMapper.mapType: TYPE_MAP[normalizedType] || 'String'
mapType(sqlType) ==
  LET normalizedType == toLowerCase(sqlType)
      found == propertyOf(TYPE_MAP, normalizedType)
  IN  IF found = <<>> THEN <<"S","t","r","i","n","g">> ELSE found

\* part.charAt(0).toUpperCase() + part.slice(1).toLowerCase()
capitalizePartOffByOne(part) ==
  toUpperCase(charAt0(part)) \o toLowerCase(sliceFrom(part, 0))

capitalizePart(part) ==
  toUpperCase(charAt0(part)) \o toLowerCase(sliceFrom(part, 1))

\* TypeMapper.toCamelCase
toCamelCase(name) ==
  LET parts == split(name, "_")
  IN  joinAll([i \in 1..Len(parts) |->
                 IF i = 1 THEN toLowerCase(parts[i]) ELSE capitalizePart(parts[i])])

\* TypeMapper.toPascalCase
toPascalCase(name) ==
  LET parts == split(name, "_")
  IN  joinAll([i \in 1..Len(parts) |-> capitalizePart(parts[i])])

\* The fixed text of the single-record fetch expression:
\* `SELECT * FROM ${schema}.${name} WHERE ${primaryKey} = ?`
SELECT_FROM ==
  << "S","E","L","E","C","T"," ","*"," ","F","R","O","M"," " >>

WHERE ==
  << " ","W","H","E","R","E"," " >>

EQUALS_PLACEHOLDER ==
  << " ","="," ","?" >>

\* TypeMapper.formatFieldType
formatFieldType(graphqlType, isNullable) ==
  IF isNullable THEN graphqlType ELSE graphqlType \o << "!" >>

\* TypeMapper.isVowel, of the result of charAt: one character or none
isVowel(char) ==
  toLowerCase(char) \in { <<"a">>, <<"e">>, <<"i">>, <<"o">>, <<"u">> }

pluralizeAppendingS(name) ==
  name \o <<"s">>

\* TypeMapper.pluralize
pluralize(name) ==
  IF \/ endsWith(name, <<"s">>) \/ endsWith(name, <<"x">>)
     \/ endsWith(name, <<"c","h">>) \/ endsWith(name, <<"s","h">>)
    THEN name \o <<"e","s">>
  ELSE IF /\ endsWith(name, <<"y">>)
          /\ ~isVowel(IF Len(name) >= 2 THEN << name[Len(name) - 1] >> ELSE <<>>)
    THEN SubSeq(name, 1, Len(name) - 1) \o <<"i","e","s">>
  ELSE name \o <<"s">>

singularizeEsAndIesOnly(name) ==
  IF endsWith(name, <<"i","e","s">>)
    THEN SubSeq(name, 1, Len(name) - 3) \o <<"y">>
  ELSE IF endsWith(name, <<"e","s">>)
    THEN SubSeq(name, 1, Len(name) - 2)
  ELSE name

\* TypeMapper.singularize
singularize(name) ==
  IF endsWith(name, <<"i","e","s">>)
    THEN SubSeq(name, 1, Len(name) - 3) \o <<"y">>
  ELSE IF endsWith(name, <<"e","s">>)
    THEN SubSeq(name, 1, Len(name) - 2)
  ELSE IF endsWith(name, <<"s">>) /\ ~endsWith(name, <<"s","s">>)
    THEN SubSeq(name, 1, Len(name) - 1)
  ELSE name

\* pascalCase.charAt(0).toLowerCase() + pascalCase.slice(1)
lowerFirst(pascalCase) ==
  toLowerCase(charAt0(pascalCase)) \o sliceFrom(pascalCase, 1)

\* TypeMapper.getListQueryName
getListQueryName(tableName) ==
  pluralize(lowerFirst(toPascalCase(tableName)))

\* TypeMapper.getSingleQueryName
getSingleQueryName(tableName) ==
  lowerFirst(toPascalCase(tableName))

(***************************************************************************)
(* Qualified names and the table patterns of the configuration             *)
(* (src/core/generator.ts)                                                 *)
(***************************************************************************)
\* `${schema}.${table}` (database.ts getTables fullName, generator.ts
\* referencedFullName)
fullNameOf(schema, table) ==
  schema \o << "." >> \o table

\* const [schema, table] = tableName.includes('.') ? tableName.split('.')
\*                                                  : ['dbo', tableName]
splitTableName(tableName) ==
  IF includes(tableName, ".")
    THEN LET parts == split(tableName, ".")
         IN  [schema |-> parts[1], table |-> parts[2]]
    ELSE [schema |-> <<"d","b","o">>, table |-> tableName]

\* The regular expression matchTablePattern builds from a pattern, as the
\* sequence of its atoms: '.' is escaped to a literal dot, '*' becomes '.*',
\* '?' becomes '.', and every other character stands for itself.
regexPattern(pattern) ==
  IF pattern = <<>> THEN <<>>
  ELSE [i \in 1..Len(pattern) |->
          IF pattern[i] = "*" THEN [atom |-> "anyStar", ch |-> "*"]
          ELSE IF pattern[i] = "?" THEN [atom |-> "anyChar", ch |-> "?"]
          ELSE [atom |-> "literal", ch |-> pattern[i]]]

\* new RegExp(`^${regexPattern}$`, 'i').test(text)
RECURSIVE regexTest(_, _)
regexTest(atoms, text) ==
  IF atoms = <<>> THEN text = <<>>
  ELSE IF Head(atoms).atom = "anyStar"
    THEN \/ regexTest(Tail(atoms), text)
         \/ (text # <<>> /\ regexTest(atoms, Tail(text)))
  ELSE IF Head(atoms).atom = "anyChar"
    THEN text # <<>> /\ regexTest(Tail(atoms), Tail(text))
  ELSE /\ text # <<>>
       /\ toLowerChar(Head(text)) = toLowerChar(Head(atoms).ch)
       /\ regexTest(Tail(atoms), Tail(text))

\* MSSQLSchemaGenerator.matchTablePattern
matchTablePattern(fullTableName, pattern) ==
  regexTest(regexPattern(pattern), fullTableName)

\* filterByPatterns with every() in the place of some()
RECURSIVE filterByEveryPattern(_, _)
filterByEveryPattern(tables, patterns) ==
  IF tables = <<>> THEN <<>>
  ELSE LET rest == filterByEveryPattern(Tail(tables), patterns)
       IN  IF \A i \in 1..Len(patterns) :
                 matchTablePattern(Head(tables).fullName, patterns[i])
             THEN << Head(tables) >> \o rest
             ELSE rest

\* tables.filter(table => patterns.some(pattern => matchTablePattern(...)))
RECURSIVE filterByPatterns(_, _)
filterByPatterns(tables, patterns) ==
  IF tables = <<>> THEN <<>>
  ELSE LET rest == filterByPatterns(Tail(tables), patterns)
       IN  IF \E i \in 1..Len(patterns) :
                 matchTablePattern(Head(tables).fullName, patterns[i])
             THEN << Head(tables) >> \o rest
             ELSE rest

\* tables.map(t => t.fullName)
fullNames(tables) ==
  IF tables = <<>> THEN <<>> ELSE [i \in 1..Len(tables) |-> tables[i].fullName]

\* MSSQLSchemaGenerator.filterTables
filterTables(tables, patterns) ==
  IF Len(patterns) = 0
    THEN fullNames(tables)
    ELSE fullNames(filterByPatterns(tables, patterns))

(***************************************************************************)
(* DatabaseConnector as seen by the generator (src/core/database.ts)       *)
(***************************************************************************)
\* DatabaseConnector.getTables: one row per base table, in the order of
\* the query's ORDER BY, with fullName = `${TABLE_SCHEMA}.${TABLE_NAME}`
getTables(db) ==
  IF db = <<>> THEN <<>>
  ELSE [i \in 1..Len(db) |->
          [schema   |-> db[i].schema,
           table    |-> db[i].table,
           fullName |-> fullNameOf(db[i].schema, db[i].table)]]

\* DatabaseConnector.getTableInfo: the three metadata queries select the rows
\* WHERE TABLE_NAME = @tableName AND TABLE_SCHEMA = @schema; a pair that names
\* no table yields empty record sets, not an error.
getTableInfo(db, tableName, schema) ==
  LET hits == { i \in 1..Len(db) : db[i].table = tableName /\ db[i].schema = schema }
  IN  IF hits = {}
        THEN [schema |-> schema, name |-> tableName, columns |-> <<>>,
              primaryKeys |-> <<>>, foreignKeys |-> <<>>]
        ELSE LET row == db[CHOOSE i \in hits : TRUE]
                 cols == row.columns
             IN  [schema      |-> schema,
                  name        |-> tableName,
                  columns     |->
                    IF cols = <<>> THEN <<>>
                    ELSE [i \in 1..Len(cols) |->
                            [name         |-> cols[i].name,
                             dataType     |-> cols[i].dataType,
                             isNullable   |-> cols[i].isNullable,
                             isPrimaryKey |-> cols[i].name \in Range(row.primaryKeys),
                             isForeignKey |->
                               \E k \in 1..Len(row.foreignKeys) :
                                  row.foreignKeys[k].columnName = cols[i].name]],
                  primaryKeys |-> row.primaryKeys,
                  foreignKeys |-> row.foreignKeys]

(***************************************************************************)
(* Foreign-key closure and warnings (src/core/generator.ts)                *)
(***************************************************************************)
\* shouldAutoInclude with the test of generateRelationships left out
shouldAutoIncludeOnOneFlag(cfg) ==
  cfg.autoIncludeForeignKeyTables

\* generate(): the condition under which autoIncludeForeignKeyTables is called
shouldAutoInclude(cfg) ==
  cfg.generateRelationships /\ cfg.autoIncludeForeignKeyTables

\* includeReferenced without queue.push: referenced tables are added to the
\* set but their own foreign keys are never followed
RECURSIVE includeReferencedNoPush(_, _, _, _)
includeReferencedNoPush(foreignKeys, toProcess, q, tables) ==
  IF foreignKeys = <<>>
    THEN [tablesToProcess |-> toProcess, queue |-> q]
    ELSE LET fk == Head(foreignKeys)
             referencedFullName == fullNameOf(fk.referencedSchema, fk.referencedTable)
             exists == \E i \in 1..Len(tables) : tables[i].fullName = referencedFullName
         IN  IF referencedFullName \notin Range(toProcess) /\ exists
               THEN includeReferencedNoPush(Tail(foreignKeys),
                                            Append(toProcess, referencedFullName),
                                            q, tables)
               ELSE includeReferencedNoPush(Tail(foreignKeys), toProcess, q, tables)

\* includeReferenced without the test that the referenced table exists
RECURSIVE includeReferencedUnchecked(_, _, _, _)
includeReferencedUnchecked(foreignKeys, toProcess, q, tables) ==
  IF foreignKeys = <<>>
    THEN [tablesToProcess |-> toProcess, queue |-> q]
    ELSE LET fk == Head(foreignKeys)
             referencedFullName == fullNameOf(fk.referencedSchema, fk.referencedTable)
         IN  IF referencedFullName \notin Range(toProcess)
               THEN includeReferencedUnchecked(Tail(foreignKeys),
                                               Append(toProcess, referencedFullName),
                                               Append(q, referencedFullName), tables)
               ELSE includeReferencedUnchecked(Tail(foreignKeys), toProcess, q, tables)

\* autoIncludeForeignKeyTables, the loop over tableInfo.foreignKeys: a
\* referenced table that is not yet in tablesToProcess and is listed in
\* allTables is added to the set and pushed on the queue.  tablesToProcess
\* is a JavaScript Set, kept here as the sequence of its insertion order.
RECURSIVE includeReferenced(_, _, _, _)
includeReferenced(foreignKeys, toProcess, q, tables) ==
  IF foreignKeys = <<>>
    THEN [tablesToProcess |-> toProcess, queue |-> q]
    ELSE LET fk == Head(foreignKeys)
             referencedFullName == fullNameOf(fk.referencedSchema, fk.referencedTable)
             exists == \E i \in 1..Len(tables) : tables[i].fullName = referencedFullName
         IN  IF referencedFullName \notin Range(toProcess) /\ exists
               THEN includeReferenced(Tail(foreignKeys),
                                      Append(toProcess, referencedFullName),
                                      Append(q, referencedFullName), tables)
               ELSE includeReferenced(Tail(foreignKeys), toProcess, q, tables)

\* closureIteration without a visited set: every referenced table of the
\* catalog is pushed on the queue, whether or not it was seen before
RECURSIVE pushAllReferenced(_, _, _, _)
pushAllReferenced(foreignKeys, toProcess, q, tables) ==
  IF foreignKeys = <<>>
    THEN [tablesToProcess |-> toProcess, queue |-> q]
    ELSE LET fk == Head(foreignKeys)
             referencedFullName == fullNameOf(fk.referencedSchema, fk.referencedTable)
             exists == \E i \in 1..Len(tables) : tables[i].fullName = referencedFullName
         IN  IF exists
               THEN pushAllReferenced(
                      Tail(foreignKeys),
                      IF referencedFullName \in Range(toProcess) THEN toProcess
                      ELSE Append(toProcess, referencedFullName),
                      Append(q, referencedFullName), tables)
               ELSE pushAllReferenced(Tail(foreignKeys), toProcess, q, tables)

closureIterationNoVisited(toProcess, proc, q, tables, fetchOk, foreignKeys) ==
  IF ~fetchOk
    THEN [tablesToProcess |-> toProcess, processed |-> proc,
          queue |-> Tail(q), fetched |-> TRUE]
    ELSE LET r == pushAllReferenced(foreignKeys, toProcess, Tail(q), tables)
         IN  [tablesToProcess |-> r.tablesToProcess, processed |-> proc,
              queue |-> r.queue, fetched |-> TRUE]

closureIterationDroppingFailed(toProcess, proc, q, tables, fetchOk, foreignKeys) ==
  LET tableName == Head(q)
      rest      == Tail(q)
  IN  IF tableName \in proc
        THEN [tablesToProcess |-> toProcess, processed |-> proc,
              queue |-> rest, fetched |-> FALSE]
      ELSE IF ~fetchOk
        THEN [tablesToProcess |-> SelectSeq(toProcess, LAMBDA t : t # tableName),
              processed |-> proc \cup {tableName},
              queue |-> rest, fetched |-> TRUE]
      ELSE LET r == includeReferenced(foreignKeys, toProcess, rest, tables)
           IN  [tablesToProcess |-> r.tablesToProcess,
                processed |-> proc \cup {tableName},
                queue |-> r.queue, fetched |-> TRUE]

closureIterationStoppingOnFailure(toProcess, proc, q, tables, fetchOk, foreignKeys) ==
  LET tableName == Head(q)
      rest      == Tail(q)
  IN  IF tableName \in proc
        THEN [tablesToProcess |-> toProcess, processed |-> proc,
              queue |-> rest, fetched |-> FALSE]
      ELSE IF ~fetchOk
        THEN [tablesToProcess |-> toProcess, processed |-> proc \cup {tableName},
              queue |-> <<>>, fetched |-> TRUE]
      ELSE LET r == includeReferenced(foreignKeys, toProcess, rest, tables)
           IN  [tablesToProcess |-> r.tablesToProcess,
                processed |-> proc \cup {tableName},
                queue |-> r.queue, fetched |-> TRUE]

\* autoIncludeForeignKeyTables, one iteration of the while loop for the
\* table at the head of the queue.  fetched tells whether getTableInfo was
\* called, fetchOk whether it returned, foreignKeys what it returned.
closureIteration(toProcess, proc, q, tables, fetchOk, foreignKeys) ==
  LET tableName == Head(q)
      rest      == Tail(q)
  IN  IF tableName \in proc
        THEN [tablesToProcess |-> toProcess, processed |-> proc,
              queue |-> rest, fetched |-> FALSE]
      ELSE IF ~fetchOk
        THEN [tablesToProcess |-> toProcess, processed |-> proc \cup {tableName},
              queue |-> rest, fetched |-> TRUE]
      ELSE LET r == includeReferenced(foreignKeys, toProcess, rest, tables)
           IN  [tablesToProcess |-> r.tablesToProcess,
                processed |-> proc \cup {tableName},
                queue |-> r.queue, fetched |-> TRUE]

\* warnMissingForeignKeyTables testing only the tables processed so far, not
\* the generation set
RECURSIVE warnUnprocessedForeignKeyTables(_, _, _)
warnUnprocessedForeignKeyTables(tableInfo, processedSet, generationSet) ==
  IF tableInfo.foreignKeys = <<>> THEN <<>>
  ELSE LET fk == Head(tableInfo.foreignKeys)
           referencedFullName == fullNameOf(fk.referencedSchema, fk.referencedTable)
           rest == warnUnprocessedForeignKeyTables(
                     [tableInfo EXCEPT !.foreignKeys = Tail(tableInfo.foreignKeys)],
                     processedSet, generationSet)
       IN  IF referencedFullName \notin processedSet
             THEN << [table      |-> fullNameOf(tableInfo.schema, tableInfo.name),
                      references |-> referencedFullName,
                      via        |-> fk.columnName] >> \o rest
             ELSE rest

\* MSSQLSchemaGenerator.warnMissingForeignKeyTables: the warnings printed for
\* one table, in the order of its foreign keys
RECURSIVE warnMissingForeignKeyTables(_, _, _)
warnMissingForeignKeyTables(tableInfo, processedSet, generationSet) ==
  IF tableInfo.foreignKeys = <<>> THEN <<>>
  ELSE LET fk == Head(tableInfo.foreignKeys)
           referencedFullName == fullNameOf(fk.referencedSchema, fk.referencedTable)
           rest == warnMissingForeignKeyTables(
                     [tableInfo EXCEPT !.foreignKeys = Tail(tableInfo.foreignKeys)],
                     processedSet, generationSet)
       IN  IF referencedFullName \notin Range(generationSet)
              /\ referencedFullName \notin processedSet
             THEN << [table      |-> fullNameOf(tableInfo.schema, tableInfo.name),
                      references |-> referencedFullName,
                      via        |-> fk.columnName] >> \o rest
             ELSE rest

(***************************************************************************)
(* SchemaGenerator (src/generators/schema-generator.ts)                    *)
(***************************************************************************)
\* s.replace(/<suffix>$/, '')
replaceAtEnd(s, suffix) ==
  IF endsWith(s, suffix) THEN SubSeq(s, 1, Len(s) - Len(suffix)) ELSE s

\* relationshipFieldName stripping the suffixes for as long as one is found
RECURSIVE stripEverySuffix(_)
stripEverySuffix(s) ==
  IF endsWith(s, <<"I","d">>) \/ endsWith(s, <<"I","D">>)
    THEN stripEverySuffix(SubSeq(s, 1, Len(s) - 2))
  ELSE IF endsWith(s, <<"_","i","d">>) \/ endsWith(s, <<"_","I","D">>)
    THEN stripEverySuffix(SubSeq(s, 1, Len(s) - 3))
  ELSE s

relationshipFieldNameStrippingAll(fk) ==
  stripEverySuffix(toCamelCase(fk.columnName)) \o toPascalCase(fk.referencedTable)

\* generateType: the name of the relationship field of one foreign key
relationshipFieldName(fk) ==
  LET relatedTypeName == toPascalCase(fk.referencedTable)
      fkFieldBase ==
        replaceAtEnd(
          replaceAtEnd(
            replaceAtEnd(
              replaceAtEnd(toCamelCase(fk.columnName), <<"I","d">>),
              <<"I","D">>),
            <<"_","i","d">>),
          <<"_","I","D">>)
  IN  fkFieldBase \o relatedTypeName

\* generateType with the relationship fields pushed before the column fields
generateTypeRelationshipsFirst(table, generateRelationships) ==
  LET columnFields ==
        IF table.columns = <<>> THEN <<>>
        ELSE [i \in 1..Len(table.columns) |->
                [name     |-> toCamelCase(table.columns[i].name),
                 type     |-> mapType(table.columns[i].dataType),
                 nullable |-> table.columns[i].isNullable]]
      relationshipFields ==
        IF generateRelationships /\ Len(table.foreignKeys) > 0
          THEN [k \in 1..Len(table.foreignKeys) |->
                  [name     |-> relationshipFieldName(table.foreignKeys[k]),
                   type     |-> toPascalCase(table.foreignKeys[k].referencedTable),
                   nullable |-> TRUE]]
          ELSE <<>>
  IN  [name |-> toPascalCase(table.name), fields |-> relationshipFields \o columnFields]

\* SchemaGenerator.generateType
generateType(table, generateRelationships) ==
  LET columnFields ==
        IF table.columns = <<>> THEN <<>>
        ELSE [i \in 1..Len(table.columns) |->
                [name     |-> toCamelCase(table.columns[i].name),
                 type     |-> mapType(table.columns[i].dataType),
                 nullable |-> table.columns[i].isNullable]]
      relationshipFields ==
        IF generateRelationships /\ Len(table.foreignKeys) > 0
          THEN [k \in 1..Len(table.foreignKeys) |->
                  [name     |-> relationshipFieldName(table.foreignKeys[k]),
                   type     |-> toPascalCase(table.foreignKeys[k].referencedTable),
                   nullable |-> TRUE]]
          ELSE <<>>
  IN  [name |-> toPascalCase(table.name), fields |-> columnFields \o relationshipFields]

\* FilterGenerator.generateTableFilterType with the default FilterConfig
\* (useShorthands and enableLogicalOps true): the input type of the table
filterTypeOfField(graphqlType) ==
  IF graphqlType \in { <<"S","t","r","i","n","g">>, <<"I","D">> } THEN << graphqlType >>
  ELSE IF graphqlType \in { <<"I","n","t">>, <<"F","l","o","a","t">>,
                            <<"B","o","o","l","e","a","n">> }
    THEN << graphqlType \o <<"F","i","l","t","e","r">> >>
  ELSE <<>>

RECURSIVE filterFields(_)
filterFields(columns) ==
  IF columns = <<>> THEN <<>>
  ELSE LET filterType == filterTypeOfField(mapType(Head(columns).dataType))
       IN  (IF filterType = <<>> THEN <<>>
            ELSE << [name |-> toCamelCase(Head(columns).name),
                     type |-> filterType[1]] >>)
           \o filterFields(Tail(columns))

generateTableFilterType(table) ==
  LET filterTypeName == toPascalCase(table.name) \o <<"F","i","l","t","e","r">>
  IN  [name   |-> filterTypeName,
       fields |-> filterFields(table.columns)
                    \o << [name |-> <<"a","n","d">>, type |-> filterTypeName],
                          [name |-> <<"o","r">>,     type |-> filterTypeName] >>]

\* generateQueries: the single-record query of a table whose first primary
\* key column is primaryKey, none when no column has that name
singleQueries(table, primaryKey) ==
  LET typeName == toPascalCase(table.name)
      found == { i \in 1..Len(table.columns) : table.columns[i].name = primaryKey }
  IN  IF found = {} THEN <<>>
      ELSE LET pkColumn == table.columns[CHOOSE i \in found : \A j \in found : i <= j]
           IN  << [name       |-> getSingleQueryName(table.name),
                   returnType |-> typeName,
                   arguments  |-> << [name     |-> toCamelCase(primaryKey),
                                      type     |-> mapType(pkColumn.dataType),
                                      required |-> TRUE] >>,
                   dbQuery    |-> SELECT_FROM \o table.schema \o << "." >> \o table.name
                                    \o WHERE \o primaryKey \o EQUALS_PLACEHOLDER] >>

\* generateQueries taking the first column for the key, whatever primaryKeys
\* holds
generateQueriesKeyedByFirstColumn(table, enableFiltering) ==
  LET typeName == toPascalCase(table.name)
      listQueryArgs ==
        IF enableFiltering
          THEN << [name     |-> <<"f","i","l","t","e","r">>,
                   type     |-> typeName \o <<"F","i","l","t","e","r">>,
                   required |-> FALSE] >>
          ELSE <<>>
      listQuery == [name       |-> getListQueryName(table.name),
                    returnType |-> << "[" >> \o typeName \o << "]" >>,
                    arguments  |-> listQueryArgs,
                    dbQuery    |-> table.schema \o << "." >> \o table.name]
  IN  << listQuery >>
      \o (IF table.columns # <<>>
            THEN singleQueries(table, table.columns[1].name)
            ELSE <<>>)

\* SchemaGenerator.generateQueries
generateQueries(table, enableFiltering) ==
  LET typeName == toPascalCase(table.name)
      listQueryArgs ==
        IF enableFiltering
          THEN << [name     |-> <<"f","i","l","t","e","r">>,
                   type     |-> typeName \o <<"F","i","l","t","e","r">>,
                   required |-> FALSE] >>
          ELSE <<>>
      listQuery == [name       |-> getListQueryName(table.name),
                    returnType |-> << "[" >> \o typeName \o << "]" >>,
                    arguments  |-> listQueryArgs,
                    dbQuery    |-> table.schema \o << "." >> \o table.name]
  IN  << listQuery >>
      \o (IF table.primaryKeys # <<>> /\ table.primaryKeys[1] # <<>>
            THEN singleQueries(table, table.primaryKeys[1])
            ELSE <<>>)

\* generateTypeDefinition: the @materializer directive of a field, none when
\* no foreign key is found for it by foreignKeys.find
materializerOf(field, foreignKeys) ==
  LET found == { k \in 1..Len(foreignKeys) :
                   LET typeName == toPascalCase(foreignKeys[k].referencedTable)
                   IN  endsWith(field.name, typeName) /\ field.type = typeName }
  IN  IF found = {} THEN <<>>
      ELSE LET fk == foreignKeys[CHOOSE k \in found : \A j \in found : k <= j]
           IN  << [query    |-> getSingleQueryName(fk.referencedTable),
                   argument |-> toCamelCase(fk.referencedColumn),
                   field    |-> toCamelCase(fk.columnName)] >>

\* SchemaGenerator.generateTypeDefinition: `type <name> {` and one line per
\* field, with its directive
generateTypeDefinition(type, foreignKeys) ==
  [name   |-> type.name,
   fields |-> IF type.fields = <<>> THEN <<>>
              ELSE [i \in 1..Len(type.fields) |->
                      [name         |-> type.fields[i].name,
                       type         |-> formatFieldType(type.fields[i].type,
                                                        type.fields[i].nullable),
                       materializer |-> materializerOf(type.fields[i], foreignKeys)]]]

\* SchemaGenerator.generateQueryDefinition: the signature of a query and the
\* argument of its @dbquery directive
generateQueryDefinition(query, useTableArg) ==
  [name       |-> query.name,
   arguments  |-> IF query.arguments = <<>> THEN <<>>
                  ELSE [i \in 1..Len(query.arguments) |->
                          [name |-> query.arguments[i].name,
                           type |-> IF query.arguments[i].required
                                      THEN query.arguments[i].type \o << "!" >>
                                      ELSE query.arguments[i].type]],
   returnType |-> query.returnType,
   dbquery    |-> [argument |-> IF useTableArg THEN "table" ELSE "query",
                   value    |-> query.dbQuery]]

\* SchemaGenerator.generateSchemaFile: the filter input type when there is
\* one, the type definition, then `type Query` with one field per query
generateSchemaFile(type, queries, foreignKeys, filterType) ==
  [filterType     |-> filterType,
   typeDefinition |-> generateTypeDefinition(type, foreignKeys),
   Query          |-> [i \in 1..Len(queries) |->
                         generateQueryDefinition(
                           queries[i],
                           charAt0(queries[i].returnType) = << "[" >>
                             /\ Len(queries[i].arguments) <= 1)]]

\* "types/" and ".graphql"
TypesDir ==
  << "t","y","p","e","s","/" >>

GraphqlExt ==
  << ".","g","r","a","p","h","q","l" >>

\* FileWriter.writeSchemaFile: path.join('types', `${fileName}.graphql`),
\* relative to the output directory
schemaFilePath(fileName) ==
  TypesDir \o fileName \o GraphqlExt

\* generateIndexFile without toLowerCase
generateIndexFileVerbatim(tableNames) ==
  IF tableNames = <<>> THEN <<>>
  ELSE [i \in 1..Len(tableNames) |-> TypesDir \o tableNames[i] \o GraphqlExt]

\* SchemaGenerator.generateIndexFile: the files listed by the @sdl directive,
\* in the order of tableNames
generateIndexFile(tableNames) ==
  IF tableNames = <<>> THEN <<>>
  ELSE [i \in 1..Len(tableNames) |->
          TypesDir \o toLowerCase(tableNames[i]) \o GraphqlExt]

(***************************************************************************)
(* ConfigLoader.validate (src/utils/config-loader.ts)                      *)
(***************************************************************************)
\* The error validate throws, "none" when it returns.  A field of the
\* database section is TRUE when it is set and non-empty.
validate(cfg) ==
  IF ~cfg.server THEN "Database server is required"
  ELSE IF ~cfg.database THEN "Database name is required"
  ELSE IF ~cfg.user THEN "Database user is required"
  ELSE IF ~cfg.password THEN "Database password is required"
  ELSE "none"

(***************************************************************************)
(* Bounds and the databases and configurations the runs are drawn from     *)
(***************************************************************************)
\* The largest number of base tables of a database
MaxTables == 3

\* The largest number of failures injected into one run (a lost connection,
\* a failing metadata query, a failing generation step, a failing write)
MaxFailures == 1

Dbo ==
  << "d","b","o" >>

Sales ==
  << "S","a","l","e","s" >>

\* The tables a database may hold, in the order of ORDER BY TABLE_SCHEMA,
\* TABLE_NAME
Universe ==
  << [schema |-> Dbo,   table |-> <<"C","u","s","t">>],
     [schema |-> Dbo,   table |-> <<"I","t","e","m">>],
     [schema |-> Dbo,   table |-> <<"O","r","d">>],
     [schema |-> Sales, table |-> <<"C","u","s","t">>] >>

\* Foreign keys of the tables of Universe: the column and the referenced table
ForeignKeyGraphs ==
  { \* a chain Item -> Ord -> Cust, and Sales.Cust -> dbo.Cust
    << <<>>,
       << [col |-> <<"O","r","d","I","d">>, ref |-> 3] >>,
       << [col |-> <<"C","u","s","t","_","I","D">>, ref |-> 1] >>,
       << [col |-> <<"P","a","r","e","n","t">>, ref |-> 1] >> >>,
    \* a cycle Cust -> Ord -> Cust and a self-reference Item -> Item
    << << [col |-> <<"L","a","s","t","O","r","d">>, ref |-> 3] >>,
       << [col |-> <<"P","a","r","e","n","t","I","d">>, ref |-> 2] >>,
       << [col |-> <<"C","u","s","t","I","d">>, ref |-> 1] >>,
       <<>> >>,
    \* several foreign keys per table, two of them to the same table, and a
    \* cycle Item -> Sales.Cust -> Item
    << <<>>,
       << [col |-> <<"M","a","k","e","r">>, ref |-> 4],
          [col |-> <<"O","r","d","_","i","d">>, ref |-> 3] >>,
       << [col |-> <<"B","i","l","l","T","o">>, ref |-> 1],
          [col |-> <<"S","h","i","p","T","o">>, ref |-> 1] >>,
       << [col |-> <<"T","o","p","I","t","e","m">>, ref |-> 2] >> >>,
    \* a diamond: Item -> Cust, Item -> Ord, and both reference Sales.Cust
    << << [col |-> <<"s","a","l","e","s","_","c","u","s","t","_","i","d">>, ref |-> 4] >>,
       << [col |-> <<"C","u","s","t","I","D">>, ref |-> 1],
          [col |-> <<"O","r","d","I","D">>, ref |-> 3] >>,
       << [col |-> <<"S","o","l","d","T","o">>, ref |-> 4] >>,
       <<>> >>,
    \* a cycle through all four tables, with a self-reference on Ord
    << << [col |-> <<"I","t","e","m","I","d">>, ref |-> 2] >>,
       << [col |-> <<"O","r","d","I","d">>, ref |-> 3] >>,
       << [col |-> <<"P","r","e","v","_","I","d">>, ref |-> 3],
          [col |-> <<"B","u","y","e","r">>, ref |-> 4] >>,
       << [col |-> <<"D","b","o","C","u","s","t">>, ref |-> 1] >> >> }

IdColumn ==
  [name |-> <<"I","d">>, dataType |-> <<"i","n","t">>, isNullable |-> FALSE]

NameColumn ==
  [name |-> <<"F","u","l","l","_","n","a","m","e">>,
   dataType |-> <<"N","V","a","r","C","h","a","r">>, isNullable |-> TRUE]

\* The row of table i of Universe in a database with foreign keys g
tableRow(g, i) ==
  LET fks == IF g[i] = <<>> THEN <<>>
             ELSE [k \in 1..Len(g[i]) |->
                     [columnName       |-> g[i][k].col,
                      referencedSchema |-> Universe[g[i][k].ref].schema,
                      referencedTable  |-> Universe[g[i][k].ref].table,
                      referencedColumn |-> IdColumn.name]]
      fkColumns == IF fks = <<>> THEN <<>>
                   ELSE [k \in 1..Len(fks) |->
                           [name |-> fks[k].columnName,
                            dataType |-> <<"i","n","t">>, isNullable |-> TRUE]]
  IN  [schema      |-> Universe[i].schema,
       table       |-> Universe[i].table,
       columns     |-> << IdColumn, NameColumn >> \o fkColumns,
       primaryKeys |-> << IdColumn.name >>,
       foreignKeys |-> fks]

RECURSIVE tableRows(_, _, _)
tableRows(g, present, i) ==
  IF i > Len(Universe) THEN <<>>
  ELSE (IF i \in present THEN << tableRow(g, i) >> ELSE <<>>)
       \o tableRows(g, present, i + 1)

\* The databases: any MaxTables tables of Universe at most, with the foreign
\* keys of a graph; a foreign key may reference a table the database's
\* catalog does not list
Databases ==
  { tableRows(g, present, 1) :
      g \in ForeignKeyGraphs,
      present \in { P \in SUBSET (1..Len(Universe)) : Cardinality(P) <= MaxTables } }

(***************************************************************************)
(* Databases whose tables put the schema generator to the test              *)
(***************************************************************************)
\* Customer(CustomerId PK, Name) and Order(OrderId PK, CustomerId FK, Total)
CustomerOrderDb ==
  << [schema      |-> <<"d","b","o">>,
      table       |-> <<"C","u","s","t","o","m","e","r">>,
      columns     |->
        << [name |-> <<"C","u","s","t","o","m","e","r","I","d">>, dataType |-> <<"i","n","t">>, isNullable |-> FALSE],
           [name |-> <<"N","a","m","e">>, dataType |-> <<"n","v","a","r","c","h","a","r">>, isNullable |-> TRUE] >>,
      primaryKeys |-> << <<"C","u","s","t","o","m","e","r","I","d">> >>,
      foreignKeys |->
        <<>>],
     [schema      |-> <<"d","b","o">>,
      table       |-> <<"O","r","d","e","r">>,
      columns     |->
        << [name |-> <<"O","r","d","e","r","I","d">>, dataType |-> <<"i","n","t">>, isNullable |-> FALSE],
           [name |-> <<"C","u","s","t","o","m","e","r","I","d">>, dataType |-> <<"i","n","t">>, isNullable |-> FALSE],
           [name |-> <<"T","o","t","a","l">>, dataType |-> <<"d","e","c","i","m","a","l">>, isNullable |-> TRUE] >>,
      primaryKeys |-> << <<"O","r","d","e","r","I","d">> >>,
      foreignKeys |->
        << [columnName |-> <<"C","u","s","t","o","m","e","r","I","d">>, referencedSchema |-> <<"d","b","o">>,
            referencedTable |-> <<"C","u","s","t","o","m","e","r">>, referencedColumn |-> <<"C","u","s","t","o","m","e","r","I","d">>] >>] >>

\* Cities and People, each with LastEditedBy referencing People (the sample
\* database of dbscripts/up-wwi.sh)
PeopleDb ==
  << [schema      |-> <<"d","b","o">>,
      table       |-> <<"C","i","t","i","e","s">>,
      columns     |->
        << [name |-> <<"C","i","t","y","I","D">>, dataType |-> <<"i","n","t">>, isNullable |-> FALSE],
           [name |-> <<"C","i","t","y","_","N","a","m","e">>, dataType |-> <<"n","v","a","r","c","h","a","r">>, isNullable |-> FALSE],
           [name |-> <<"L","a","s","t","E","d","i","t","e","d","B","y">>, dataType |-> <<"i","n","t">>, isNullable |-> FALSE] >>,
      primaryKeys |-> << <<"C","i","t","y","I","D">> >>,
      foreignKeys |->
        << [columnName |-> <<"L","a","s","t","E","d","i","t","e","d","B","y">>, referencedSchema |-> <<"d","b","o">>,
            referencedTable |-> <<"P","e","o","p","l","e">>, referencedColumn |-> <<"P","e","r","s","o","n","I","D">>] >>],
     [schema      |-> <<"d","b","o">>,
      table       |-> <<"P","e","o","p","l","e">>,
      columns     |->
        << [name |-> <<"P","e","r","s","o","n","I","D">>, dataType |-> <<"i","n","t">>, isNullable |-> FALSE],
           [name |-> <<"F","u","l","l","_","N","a","m","e">>, dataType |-> <<"n","v","a","r","c","h","a","r">>, isNullable |-> FALSE],
           [name |-> <<"L","a","s","t","E","d","i","t","e","d","B","y">>, dataType |-> <<"i","n","t">>, isNullable |-> TRUE] >>,
      primaryKeys |-> << <<"P","e","r","s","o","n","I","D">> >>,
      foreignKeys |->
        << [columnName |-> <<"L","a","s","t","E","d","i","t","e","d","B","y">>, referencedSchema |-> <<"d","b","o">>,
            referencedTable |-> <<"P","e","o","p","l","e">>, referencedColumn |-> <<"P","e","r","s","o","n","I","D">>] >>] >>

\* Transfer has two foreign keys to Account
TransferDb ==
  << [schema      |-> <<"d","b","o">>,
      table       |-> <<"A","c","c","o","u","n","t">>,
      columns     |->
        << [name |-> <<"A","c","c","o","u","n","t","_","I","d">>, dataType |-> <<"u","n","i","q","u","e","i","d","e","n","t","i","f","i","e","r">>, isNullable |-> FALSE],
           [name |-> <<"O","w","n","e","r">>, dataType |-> <<"v","a","r","c","h","a","r">>, isNullable |-> TRUE] >>,
      primaryKeys |-> << <<"A","c","c","o","u","n","t","_","I","d">> >>,
      foreignKeys |->
        <<>>],
     [schema      |-> <<"d","b","o">>,
      table       |-> <<"T","r","a","n","s","f","e","r">>,
      columns     |->
        << [name |-> <<"T","r","a","n","s","f","e","r","_","I","d">>, dataType |-> <<"b","i","g","i","n","t">>, isNullable |-> FALSE],
           [name |-> <<"F","r","o","m","_","A","c","c","o","u","n","t","_","I","d">>, dataType |-> <<"u","n","i","q","u","e","i","d","e","n","t","i","f","i","e","r">>, isNullable |-> FALSE],
           [name |-> <<"A","m","o","u","n","t">>, dataType |-> <<"m","o","n","e","y">>, isNullable |-> FALSE],
           [name |-> <<"T","o","_","A","c","c","o","u","n","t","_","I","d">>, dataType |-> <<"u","n","i","q","u","e","i","d","e","n","t","i","f","i","e","r">>, isNullable |-> FALSE] >>,
      primaryKeys |-> << <<"T","r","a","n","s","f","e","r","_","I","d">> >>,
      foreignKeys |->
        << [columnName |-> <<"F","r","o","m","_","A","c","c","o","u","n","t","_","I","d">>, referencedSchema |-> <<"d","b","o">>,
            referencedTable |-> <<"A","c","c","o","u","n","t">>, referencedColumn |-> <<"A","c","c","o","u","n","t","_","I","d">>],
           [columnName |-> <<"T","o","_","A","c","c","o","u","n","t","_","I","d">>, referencedSchema |-> <<"d","b","o">>,
            referencedTable |-> <<"A","c","c","o","u","n","t">>, referencedColumn |-> <<"A","c","c","o","u","n","t","_","I","d">>] >>] >>

\* The foreign keys Owner and Owner_Id of Pet both reference Person and both
\* derive the field name ownerPerson
SameNameDb ==
  << [schema      |-> <<"d","b","o">>,
      table       |-> <<"P","e","r","s","o","n">>,
      columns     |->
        << [name |-> <<"I","d">>, dataType |-> <<"i","n","t">>, isNullable |-> FALSE],
           [name |-> <<"N","a","m","e">>, dataType |-> <<"n","v","a","r","c","h","a","r">>, isNullable |-> TRUE] >>,
      primaryKeys |-> << <<"I","d">> >>,
      foreignKeys |->
        <<>>],
     [schema      |-> <<"d","b","o">>,
      table       |-> <<"P","e","t">>,
      columns     |->
        << [name |-> <<"I","d">>, dataType |-> <<"i","n","t">>, isNullable |-> FALSE],
           [name |-> <<"O","w","n","e","r">>, dataType |-> <<"i","n","t">>, isNullable |-> TRUE],
           [name |-> <<"O","w","n","e","r","_","I","d">>, dataType |-> <<"i","n","t">>, isNullable |-> TRUE] >>,
      primaryKeys |-> << <<"I","d">> >>,
      foreignKeys |->
        << [columnName |-> <<"O","w","n","e","r">>, referencedSchema |-> <<"d","b","o">>,
            referencedTable |-> <<"P","e","r","s","o","n">>, referencedColumn |-> <<"I","d">>],
           [columnName |-> <<"O","w","n","e","r","_","I","d">>, referencedSchema |-> <<"d","b","o">>,
            referencedTable |-> <<"P","e","r","s","o","n">>, referencedColumn |-> <<"I","d">>] >>] >>

\* A table without a primary key, a table with a composite one and a table
\* whose foreign-key names end in the four suffixes
KeysDb ==
  << [schema      |-> <<"d","b","o">>,
      table       |-> <<"A","u","d","i","t","_","L","o","g">>,
      columns     |->
        << [name |-> <<"E","n","t","r","y">>, dataType |-> <<"n","v","a","r","c","h","a","r">>, isNullable |-> TRUE],
           [name |-> <<"L","o","g","g","e","d","_","A","t">>, dataType |-> <<"d","a","t","e","t","i","m","e">>, isNullable |-> FALSE] >>,
      primaryKeys |-> <<>>,
      foreignKeys |->
        <<>>],
     [schema      |-> <<"d","b","o">>,
      table       |-> <<"C","u","s","t">>,
      columns     |->
        << [name |-> <<"I","d">>, dataType |-> <<"i","n","t">>, isNullable |-> FALSE] >>,
      primaryKeys |-> << <<"I","d">> >>,
      foreignKeys |->
        <<>>],
     [schema      |-> <<"d","b","o">>,
      table       |-> <<"O","r","d","e","r","_","L","i","n","e">>,
      columns     |->
        << [name |-> <<"O","r","d","e","r","_","I","d">>, dataType |-> <<"i","n","t">>, isNullable |-> FALSE],
           [name |-> <<"L","i","n","e","_","N","o">>, dataType |-> <<"s","m","a","l","l","i","n","t">>, isNullable |-> FALSE],
           [name |-> <<"Q","t","y">>, dataType |-> <<"i","n","t">>, isNullable |-> TRUE],
           [name |-> <<"B","u","y","e","r","I","D">>, dataType |-> <<"i","n","t">>, isNullable |-> TRUE],
           [name |-> <<"P","a","y","e","r","_","i","d">>, dataType |-> <<"i","n","t">>, isNullable |-> TRUE],
           [name |-> <<"O","w","n","e","r","_","I","D">>, dataType |-> <<"i","n","t">>, isNullable |-> TRUE],
           [name |-> <<"R","e","f","_","I","d","_","I","d">>, dataType |-> <<"i","n","t">>, isNullable |-> TRUE] >>,
      primaryKeys |-> << <<"O","r","d","e","r","_","I","d">>,
<<"L","i","n","e","_","N","o">> >>,
      foreignKeys |->
        << [columnName |-> <<"O","r","d","e","r","_","I","d">>, referencedSchema |-> <<"d","b","o">>,
            referencedTable |-> <<"C","u","s","t">>, referencedColumn |-> <<"I","d">>],
           [columnName |-> <<"B","u","y","e","r","I","D">>, referencedSchema |-> <<"d","b","o">>,
            referencedTable |-> <<"C","u","s","t">>, referencedColumn |-> <<"I","d">>],
           [columnName |-> <<"P","a","y","e","r","_","i","d">>, referencedSchema |-> <<"d","b","o">>,
            referencedTable |-> <<"C","u","s","t">>, referencedColumn |-> <<"I","d">>],
           [columnName |-> <<"O","w","n","e","r","_","I","D">>, referencedSchema |-> <<"d","b","o">>,
            referencedTable |-> <<"C","u","s","t">>, referencedColumn |-> <<"I","d">>],
           [columnName |-> <<"R","e","f","_","I","d","_","I","d">>, referencedSchema |-> <<"d","b","o">>,
            referencedTable |-> <<"C","u","s","t">>, referencedColumn |-> <<"I","d">>] >>] >>

SchemaDatabases ==
  { CustomerOrderDb, PeopleDb, TransferDb, SameNameDb, KeysDb }

\* A catalog table with the columns Id and Full_name and one int column per
\* foreign key; refs holds records [col, schema, table]
namedTable(schema, table, refs) ==
  [schema      |-> schema,
   table       |-> table,
   columns     |-> << IdColumn, NameColumn >> \o
                   (IF refs = <<>> THEN <<>>
                    ELSE [k \in 1..Len(refs) |->
                            [name |-> refs[k].col, dataType |-> <<"i","n","t">>,
                             isNullable |-> TRUE]]),
   primaryKeys |-> << IdColumn.name >>,
   foreignKeys |-> IF refs = <<>> THEN <<>>
                   ELSE [k \in 1..Len(refs) |->
                           [columnName       |-> refs[k].col,
                            referencedSchema |-> refs[k].schema,
                            referencedTable  |-> refs[k].table,
                            referencedColumn |-> IdColumn.name]]]

\* Two tables of a case-sensitive database whose names differ in letter case
\* only: dbo.Item and dbo.ITEM, the second referencing the first
CaseDb ==
  << namedTable(Dbo, <<"I","t","e","m">>, <<>>),
     namedTable(Dbo, <<"I","T","E","M">>,
                << [col |-> <<"P","a","r","e","n","t">>, schema |-> Dbo,
                    table |-> <<"I","t","e","m">>] >>) >>

\* Delimited identifiers that contain a dot: the table [Order.Items] of dbo,
\* next to dbo.Order, and the table T of the schema [a.b]
DottedDb ==
  << namedTable(Dbo, <<"O","r","d","e","r">>, <<>>),
     namedTable(Dbo, <<"O","r","d","e","r",".","I","t","e","m","s">>,
                << [col |-> <<"O","r","d","e","r","_","I","d">>, schema |-> Dbo,
                    table |-> <<"O","r","d","e","r">>] >>),
     namedTable(<<"a",".","b">>, <<"T">>, <<>>) >>

NameDatabases ==
  { CaseDb, DottedDb }

\* The table pattern lists of a configuration (generation.tables, --tables)
PatternLists ==
  { <<>>,
    << <<"d","b","o",".","i","t","e","m">> >>,
    << <<"*",".","c","u","s","t">>, <<"d","b","o",".","O","*">> >>,
    << <<"d","b","o",".","c","*">>, <<"*",".","C","u","s","t">> >>,
    << <<"d","*","o","r","d">>, <<"s","a","l","e","s","?","c","u","s","t">> >> }

\* The required connection fields, of which a configuration lacks one at most
RequiredFields ==
  { "server", "database", "user", "password" }

makeConfig(missing, tables, relationships, autoInclude, filtering) ==
  [server   |-> missing # "server",
   database |-> missing # "database",
   user     |-> missing # "user",
   password |-> missing # "password",
   tables   |-> tables,
   generateRelationships       |-> relationships,
   autoIncludeForeignKeyTables |-> autoInclude,
   filteringEnabled            |-> filtering]

\* ConfigLoader.loadFromFile: whatever the YAML file holds
FileConfigs ==
  { makeConfig(m, t, r, a, f) :
      m \in RequiredFields \cup {"none"}, t \in PatternLists,
      r \in BOOLEAN, a \in BOOLEAN, f \in BOOLEAN }

\* cli.ts, generate: the configuration built from the options when the four
\* connection options are given; it has no features
OptionConfigs ==
  { makeConfig("none", t, FALSE, FALSE, FALSE) : t \in PatternLists }

\* ConfigLoader.loadFromEnv: server defaults to 'localhost', the other
\* connection fields to ''; generateRelationships is the only feature read
EnvConfigs ==
  { makeConfig(m, <<>>, r, FALSE, FALSE) :
      m \in {"none", "database", "user", "password"}, r \in BOOLEAN }

\* cli.ts, interactive: server and user have defaults, database and password
\* are whatever was typed; the configuration has neither tables nor features
InteractiveConfigs ==
  { makeConfig(m, <<>>, FALSE, FALSE, FALSE) : m \in {"none", "database", "password"} }

(***************************************************************************)
(* State                                                                   *)
(***************************************************************************)
VARIABLES
  db,                 \* the database: its base tables with their metadata
  link,               \* "up", or "lost" once the connection has been lost
  files,              \* the output directory: records [path, content]
  console,            \* the warnings printed by warnMissingForeignKeyTables
  pc,                 \* the position of the command's action
  command,            \* "generate" or "interactive"
  entryPath,          \* where the configuration came from
  config,             \* the Config the generator was built with
  dryRun,             \* options.dryRun
  exitCode,           \* the exit code of the process, -1 while it runs
  pool,               \* DatabaseConnector.pool: "null" or "open"
  generateResult,     \* generate(): "none" (not finished), "success", "error"
  allTables,          \* generate(): allTables
  filteredTables,     \* generate(): filteredTables, the generation set
  tablesToProcess,    \* autoIncludeForeignKeyTables: tablesToProcess
  processed,          \* autoIncludeForeignKeyTables: processed
  queue,              \* autoIncludeForeignKeyTables: queue
  index,              \* generate(): position of the for-of loop
  processedTables,    \* generate(): processedTables
  processedTableSet,  \* generate(): processedTableSet
  \* history of the run, read by the properties only
  connectAttempted,   \* a connection to the server has been attempted
  connFailure,        \* generate() has met a connectivity failure
  patternFiltered,    \* what filterTables returned
  generationSetReady, \* filteredTables holds the generation set of the loop
  closureFetches,     \* the (schema, table) pairs fetched by the closure
  closureFailures,    \* how many of these fetches failed
  closureFailedTables,\* the tables whose fetch by the closure failed
  closureIterations,  \* iterations of the closure's while loop
  attempts,           \* the tables the processing loop has attempted
  fetchedTables,      \* those of them whose metadata was fetched
  failedTables,       \* those of them whose processing failed
  failures,           \* failures injected so far
  \* the static helpers of TypeMapper, called on their own
  value,              \* the string the next helper is called with
  calls               \* the calls made so far: records [fn, arg, result]

vars ==
  << db, link, files, console, pc, command, entryPath, config, dryRun, exitCode,
     pool, generateResult, allTables, filteredTables, tablesToProcess, processed,
     queue, index, processedTables, processedTableSet, connectAttempted,
     connFailure, patternFiltered, generationSetReady, closureFetches, closureFailures,
     closureFailedTables, closureIterations, attempts, fetchedTables, failedTables,
     failures, value, calls >>

mapperVars ==
  << value, calls >>

generatorVars ==
  << db, link, files, console, pc, command, entryPath, config, dryRun, exitCode,
     pool, generateResult, allTables, filteredTables, tablesToProcess, processed,
     queue, index, processedTables, processedTableSet, connectAttempted,
     connFailure, patternFiltered, generationSetReady, closureFetches, closureFailures,
     closureFailedTables, closureIterations, attempts, fetchedTables, failedTables,
     failures >>

cliVars ==
  << command, entryPath, config, dryRun >>

closureVars ==
  << tablesToProcess, processed, queue, closureFetches, closureFailures,
     closureFailedTables,
     closureIterations >>

loopVars ==
  << index, processedTables, processedTableSet, attempts, fetchedTables,
     failedTables, console >>

\* A file left in the output directory by an earlier run
StaleFile ==
  [path |-> <<"o","l","d",".","t","x","t">>, content |-> [kind |-> "stale"]]

\* The state of a run before the command starts, whatever the database
InitialRun ==
  /\ link = "up"
  /\ files = { StaleFile }
  /\ console = <<>>
  /\ pc = "start"
  /\ command = "none"
  /\ entryPath = "none"
  /\ config = makeConfig("none", <<>>, FALSE, FALSE, FALSE)
  /\ dryRun = FALSE
  /\ exitCode = -1
  /\ pool = "null"
  /\ generateResult = "none"
  /\ allTables = <<>>
  /\ filteredTables = <<>>
  /\ tablesToProcess = <<>>
  /\ processed = {}
  /\ queue = <<>>
  /\ index = 1
  /\ processedTables = <<>>
  /\ processedTableSet = {}
  /\ connectAttempted = FALSE
  /\ connFailure = FALSE
  /\ patternFiltered = <<>>
  /\ generationSetReady = FALSE
  /\ closureFetches = <<>>
  /\ closureFailures = 0
  /\ closureFailedTables = {}
  /\ closureIterations = 0
  /\ attempts = <<>>
  /\ fetchedTables = {}
  /\ failedTables = {}
  /\ failures = 0

\* No helper of TypeMapper has been called on its own
NoCalls ==
  /\ value = <<>>
  /\ calls = <<>>

Init ==
  /\ db \in Databases
  /\ InitialRun
  /\ NoCalls

\* The runs over the databases of SchemaDatabases
SchemaInit ==
  /\ db \in SchemaDatabases
  /\ InitialRun
  /\ NoCalls

\* The runs over the databases of NameDatabases
NamesInit ==
  /\ db \in NameDatabases
  /\ InitialRun
  /\ NoCalls

(***************************************************************************)
(* The command line (src/cli.ts)                                           *)
(***************************************************************************)
ConfigsOf(entry) ==
  CASE entry = "file"        -> FileConfigs
    [] entry = "options"     -> OptionConfigs
    [] entry = "env"         -> EnvConfigs
    [] entry = "interactive" -> InteractiveConfigs

\* generate, up to the first await: the configuration is loaded from the
\* file, built from the options or loaded from the environment, then
\* validated; a validation error is caught and the process exits with 1.
GenerateCommand ==
  /\ pc = "start"
  /\ \E entry \in {"file", "options", "env"}, dr \in BOOLEAN :
       \E cfg \in ConfigsOf(entry) :
         /\ command' = "generate"
         /\ entryPath' = entry
         /\ config' = cfg
         /\ dryRun' = dr
         /\ IF validate(cfg) # "none"
              THEN pc' = "exit" /\ exitCode' = 1
              ELSE pc' = "testConnection" /\ exitCode' = exitCode
  /\ UNCHANGED << mapperVars, db, link, files, pool, generateResult, allTables, filteredTables,
                  closureVars, loopVars, connectAttempted, connFailure,
                  patternFiltered, generationSetReady, failures >>

\* interactive, up to the first await after the prompts: the configuration
\* is built from the answers and handed to the generator as it is.
InteractiveCommand ==
  /\ pc = "start"
  /\ \E cfg \in ConfigsOf("interactive"), testFirst \in BOOLEAN :
       /\ command' = "interactive"
       /\ entryPath' = "interactive"
       /\ config' = cfg
       /\ pc' = IF testFirst THEN "testConnection" ELSE "confirm"
  /\ UNCHANGED << mapperVars, db, link, files, pool, generateResult, allTables, filteredTables,
                  closureVars, loopVars, connectAttempted, connFailure,
                  patternFiltered, generationSetReady, failures, dryRun, exitCode >>

afterTestConnectionIgnoringDryRun(cmd, dr) ==
  IF cmd = "interactive" THEN "confirm" ELSE "connect"

\* What follows a successful connection test: interactive asks for
\* confirmation; generate calls generator.generate() unless options.dryRun
\* is set, and generator.listTables() if it is
afterTestConnection(cmd, dr) ==
  IF cmd = "interactive" THEN "confirm"
  ELSE IF dr THEN "listTables" ELSE "connect"

\* generator.testConnection(): connect, SELECT 1, disconnect; false when any
\* of them fails, and then the command exits with 1.
TestConnection ==
  /\ pc = "testConnection"
  /\ connectAttempted' = TRUE
  /\ \E connected \in BOOLEAN :
       IF connected
         THEN /\ pc' = afterTestConnection(command, dryRun)
              /\ exitCode' = exitCode
         ELSE pc' = "exit" /\ exitCode' = 1
  /\ UNCHANGED << mapperVars, db, link, files, pool, generateResult, allTables, filteredTables,
                  closureVars, loopVars, connFailure, patternFiltered, generationSetReady, failures,
                  cliVars >>

\* interactive: the 'Proceed with schema generation?' prompt
ConfirmProceed ==
  /\ pc = "confirm"
  /\ \E proceed \in BOOLEAN :
       IF proceed
         THEN pc' = "connect" /\ exitCode' = exitCode
         ELSE pc' = "exit" /\ exitCode' = 0
  /\ UNCHANGED << mapperVars, db, link, files, pool, generateResult, allTables, filteredTables,
                  closureVars, loopVars, connectAttempted, connFailure,
                  patternFiltered, generationSetReady, failures, cliVars >>

\* generate --dry-run: generator.listTables() connects, lists the tables and
\* disconnects; the tables are printed and nothing else is done.  When the
\* listing throws, disconnect() is not reached and the command exits with 1.
ListTables ==
  /\ pc = "listTables"
  /\ connectAttempted' = TRUE
  /\ \E outcome \in { "ok", "connectError", "queryError" } :
       /\ pc' = "exit"
       /\ exitCode' = IF outcome = "ok" THEN 0 ELSE 1
       /\ pool' = IF outcome = "queryError" THEN "open" ELSE "null"
  /\ UNCHANGED << mapperVars, db, link, files, generateResult, allTables, filteredTables,
                  closureVars, loopVars, connFailure, patternFiltered, generationSetReady, failures,
                  cliVars >>

(***************************************************************************)
(* MSSQLSchemaGenerator.generate (src/core/generator.ts)                   *)
(***************************************************************************)
\* FileWriter.writeFile: the file at path is created or overwritten
writeFile(dir, path, content) ==
  { f \in dir : f.path # path } \cup { [path |-> path, content |-> content] }

\* FileWriter.cleanDirectory: fs.rmSync(dirPath, {recursive: true})
cleanDirectory(dir) ==
  {}

\* The outcomes of an awaited metadata query: on a lost connection it fails;
\* otherwise it returns, or (while failures may still be injected) fails on
\* its own or loses the connection.
FetchOutcomes ==
  IF link = "lost" THEN { "connError" }
  ELSE { "ok" } \cup (IF failures < MaxFailures THEN { "fetchError", "connLost" } ELSE {})

Injected(outcome) ==
  IF outcome \in { "ok", "connError" } THEN 0 ELSE 1

\* generate(): await this.db.connect().  A failure is rethrown by generate()
\* and the command's catch exits with 1.
Connect ==
  /\ pc = "connect"
  /\ connectAttempted' = TRUE
  /\ \E connected \in BOOLEAN :
       IF connected
         THEN /\ pool' = "open"
              /\ pc' = "getTables"
              /\ UNCHANGED << generateResult, exitCode, connFailure >>
         ELSE /\ connFailure' = TRUE
              /\ generateResult' = "error"
              /\ pc' = "exit"
              /\ exitCode' = 1
              /\ pool' = pool
  /\ UNCHANGED << mapperVars, db, link, files, allTables, filteredTables, closureVars, loopVars,
                  patternFiltered, generationSetReady, failures, cliVars >>

\* generate(): await this.db.getTables(), then filterTables, then either the
\* start of autoIncludeForeignKeyTables (up to its first await) or, without
\* it, the cleaning of the output directory and the start of the loop.
GetTables ==
  /\ pc = "getTables"
  /\ \E outcome \in { "ok", "queryError", "connLost" } :
       IF outcome = "ok"
         THEN LET tables == getTables(db)
                  filtered == filterTables(tables, config.tables)
              IN  /\ allTables' = tables
                  /\ patternFiltered' = filtered
                  /\ IF shouldAutoInclude(config)
                       THEN /\ tablesToProcess' = filtered
                            /\ processed' = {}
                            /\ queue' = filtered
                            /\ pc' = "closure"
                            /\ UNCHANGED << filteredTables, files, generationSetReady >>
                       ELSE /\ filteredTables' = filtered
                            /\ files' = cleanDirectory(files)
                            /\ pc' = "process"
                            /\ generationSetReady' = TRUE
                            /\ UNCHANGED << tablesToProcess, processed, queue >>
                  /\ UNCHANGED << link, connFailure, generateResult, exitCode >>
         ELSE /\ link' = IF outcome = "connLost" THEN "lost" ELSE link
              /\ connFailure' = (outcome = "connLost")
              /\ generateResult' = "error"
              /\ pc' = "exit"
              /\ exitCode' = 1
              /\ UNCHANGED << allTables, patternFiltered, filteredTables, files,
                              tablesToProcess, processed, queue, generationSetReady >>
  /\ UNCHANGED << mapperVars, db, pool, closureFetches, closureFailures,
                  closureFailedTables, closureIterations,
                  loopVars, connectAttempted, failures, cliVars >>

\* autoIncludeForeignKeyTables: one iteration of the while loop, with its
\* await of getTableInfo; an error of the fetch is caught and logged.
ClosureStep ==
  /\ pc = "closure"
  /\ queue # <<>>
  /\ LET tableName == Head(queue)
         parts == splitTableName(tableName)
         tableInfo == getTableInfo(db, parts.table, parts.schema)
     IN  \E outcome \in FetchOutcomes :
           LET r == closureIteration(tablesToProcess, processed, queue, allTables,
                                     outcome = "ok", tableInfo.foreignKeys)
           IN  /\ r.fetched \/ outcome = "ok"
               /\ tablesToProcess' = r.tablesToProcess
               /\ processed' = r.processed
               /\ queue' = r.queue
               /\ closureIterations' = closureIterations + 1
               /\ closureFetches' = IF r.fetched THEN Append(closureFetches, parts)
                                    ELSE closureFetches
               /\ closureFailures' = IF r.fetched /\ outcome # "ok"
                                       THEN closureFailures + 1 ELSE closureFailures
               /\ closureFailedTables' = IF r.fetched /\ outcome # "ok"
                                           THEN closureFailedTables \cup { tableName }
                                           ELSE closureFailedTables
               /\ failures' = failures + Injected(outcome)
               /\ link' = IF outcome = "connLost" THEN "lost" ELSE link
               /\ connFailure' = (connFailure \/ outcome \in { "connLost", "connError" })
  /\ UNCHANGED << mapperVars, db, files, pc, exitCode, pool, generateResult, allTables,
                  filteredTables, loopVars, connectAttempted, patternFiltered,
                  generationSetReady, cliVars >>

\* autoIncludeForeignKeyTables returns Array.from(tablesToProcess); generate()
\* assigns it to filteredTables, cleans the output directory and starts the loop.
ClosureReturn ==
  /\ pc = "closure"
  /\ queue = <<>>
  /\ filteredTables' = tablesToProcess
  /\ files' = cleanDirectory(files)
  /\ pc' = "process"
  /\ generationSetReady' = TRUE
  /\ UNCHANGED << mapperVars, db, link, exitCode, pool, generateResult, allTables, closureVars,
                  loopVars, connectAttempted, connFailure, patternFiltered, failures,
                  cliVars >>

\* generate(), lines 76-111: the content of the schema file of a table.  The
\* configuration lists no filtering.tables, so shouldEnableFiltering is
\* true of every table and enableFiltering is filtering.enabled.  The record
\* keeps the type and the foreign keys generateSchemaFile was given.
schemaContent(tableInfo, generateRelationships, enableFiltering) ==
  LET graphqlType == generateType(tableInfo, generateRelationships)
      filterType == IF enableFiltering THEN << generateTableFilterType(tableInfo) >>
                    ELSE <<>>
      queries == generateQueries(tableInfo, enableFiltering)
      foreignKeys == IF generateRelationships THEN tableInfo.foreignKeys ELSE <<>>
  IN  [kind        |-> "schema",
       type        |-> graphqlType,
       foreignKeys |-> foreignKeys,
       queries     |-> queries,
       document    |-> generateSchemaFile(graphqlType, queries, foreignKeys, filterType)]

\* pushProcessed with the push moved out of the try block
pushProcessedAlways(tables, tableName, succeeded) ==
  Append(tables, tableName)

\* generate(): processedTables after the try/catch of one table: the name
\* is pushed at the end of the try block only
pushProcessed(tables, tableName, succeeded) ==
  IF succeeded THEN Append(tables, tableName) ELSE tables

\* generate(): one iteration of the for-of loop over filteredTables.  The
\* metadata fetch, the generation or the write may fail; the catch block of
\* the iteration logs the error and the loop goes on.
ProcessTable ==
  /\ pc = "process"
  /\ index <= Len(filteredTables)
  /\ LET tableName == filteredTables[index]
         parts == splitTableName(tableName)
         tableInfo == getTableInfo(db, parts.table, parts.schema)
         relationships == config.generateRelationships
     IN  \E outcome \in FetchOutcomes \cup
                        (IF link = "up" /\ failures < MaxFailures
                           THEN { "generateError", "writeError" } ELSE {}) :
           LET fetched == outcome \in { "ok", "generateError", "writeError" }
               warnings ==
                 IF fetched /\ relationships /\ ~config.autoIncludeForeignKeyTables
                   THEN warnMissingForeignKeyTables(tableInfo, processedTableSet,
                                                    filteredTables)
                   ELSE <<>>
           IN  /\ console' = console \o warnings
               /\ files' = IF outcome = "ok"
                             THEN writeFile(files, schemaFilePath(toLowerCase(tableName)),
                                            schemaContent(tableInfo, relationships,
                                                          config.filteringEnabled))
                             ELSE files
               /\ processedTables' = pushProcessed(processedTables, tableName,
                                                   outcome = "ok")
               /\ processedTableSet' = IF outcome = "ok"
                                         THEN processedTableSet \cup { tableName }
                                         ELSE processedTableSet
               /\ attempts' = Append(attempts, tableName)
               /\ fetchedTables' = IF fetched THEN fetchedTables \cup { tableName }
                                   ELSE fetchedTables
               /\ failedTables' = IF outcome = "ok" THEN failedTables
                                  ELSE failedTables \cup { tableName }
               /\ failures' = failures + Injected(outcome)
               /\ link' = IF outcome = "connLost" THEN "lost" ELSE link
               /\ connFailure' = (connFailure \/ outcome \in { "connLost", "connError" })
  /\ index' = index + 1
  /\ UNCHANGED << mapperVars, db, pc, exitCode, pool, generateResult, allTables, filteredTables,
                  closureVars, connectAttempted, patternFiltered, generationSetReady,
                  cliVars >>

FiltersName ==
  << "f","i","l","t","e","r","s" >>

IndexPath ==
  << "i","n","d","e","x",".","g","r","a","p","h","q","l" >>

ConfigPath ==
  << "c","o","n","f","i","g",".","y","a","m","l" >>

\* generate() after the loop: the shared filter types (when filtering is
\* enabled), index.graphql, config.yaml, then disconnect().  A failing write
\* is rethrown by generate(), which then does not reach disconnect().
WriteOutputs ==
  /\ pc = "process"
  /\ index > Len(filteredTables)
  /\ LET listed == IF config.filteringEnabled
                     THEN Append(processedTables, FiltersName) ELSE processedTables
         withFilters == IF config.filteringEnabled
                          THEN writeFile(files, schemaFilePath(FiltersName),
                                         [kind |-> "filters"])
                          ELSE files
         withIndex == writeFile(withFilters, IndexPath,
                                [kind |-> "index", files |-> generateIndexFile(listed)])
         withConfig == writeFile(withIndex, ConfigPath, [kind |-> "config"])
     IN  \E failAt \in { "none" } \cup
                       (IF failures < MaxFailures
                          THEN { "index", "config" } \cup
                               (IF config.filteringEnabled THEN { "filters" } ELSE {})
                          ELSE {}) :
           /\ processedTables' = IF failAt = "filters" THEN processedTables ELSE listed
           /\ files' = CASE failAt = "none"    -> withConfig
                         [] failAt = "config"  -> withIndex
                         [] failAt = "index"   -> withFilters
                         [] failAt = "filters" -> files
           /\ failures' = failures + (IF failAt = "none" THEN 0 ELSE 1)
           /\ generateResult' = IF failAt = "none" THEN "success" ELSE "error"
           /\ pool' = IF failAt = "none" THEN "null" ELSE pool
           /\ exitCode' = IF failAt = "none" THEN 0 ELSE 1
  /\ pc' = "exit"
  /\ UNCHANGED << mapperVars, db, link, console, allTables, filteredTables, closureVars, index,
                  processedTableSet, attempts, fetchedTables, failedTables,
                  connectAttempted, connFailure, patternFiltered, generationSetReady,
                  cliVars >>

Next ==
  \/ GenerateCommand
  \/ InteractiveCommand
  \/ TestConnection
  \/ ConfirmProceed
  \/ ListTables
  \/ Connect
  \/ GetTables
  \/ ClosureStep
  \/ ClosureReturn
  \/ ProcessTable
  \/ WriteOutputs

Spec ==
  Init /\ [][Next]_vars

SchemaSpec ==
  SchemaInit /\ [][Next]_vars

NamesSpec ==
  NamesInit /\ [][Next]_vars

(***************************************************************************)
(* The static helpers of TypeMapper, called on their own                   *)
(* (src/utils/type-mapper.ts)                                              *)
(***************************************************************************)
MaxCalls == 4

\* Beginnings and endings of the strings the helpers are called with
Stems ==
  { <<>>, <<"o","r","d">>, <<"B","o">>, <<"t","a","b","l">>, <<"ß","t">>,
    <<"k","1">>, <<"d","a">> }

Endings ==
  { <<>>, <<"s">>, <<"x">>, <<"c","h">>, <<"s","h">>, <<"y">>, <<"e">>,
    <<"i","e">>, <<"s","s">>, <<"I","d">>, <<"_","i","d">> }

\* Names of SQL Server types as a catalog can spell them
TypeNames ==
  { <<"i","n","t">>, <<"I","N","T">>, <<"V","a","r","C","h","a","r">>,
    <<"g","e","o","g","r","a","p","h","y">>,
    <<"c","o","n","s","t","r","u","c","t","o","r">>,
    <<"C","o","n","s","t","r","u","c","t","o","r">>,
    <<"_","_","p","r","o","t","o","_","_">> }

MapperInputs ==
  { stem \o ending : stem \in Stems, ending \in Endings } \cup TypeNames

MapperInit ==
  /\ db = <<>>
  /\ InitialRun
  /\ value \in MapperInputs
  /\ calls = <<>>

\* The record of one call fn(value) = result
called(fn, result) ==
  [fn |-> fn, arg |-> value, result |-> result]

\* The conversions are called again with their own result, the lookups and
\* the query names with the same string
MapType ==
  /\ Len(calls) < MaxCalls
  /\ calls' = Append(calls, called("mapType", mapType(value)))
  /\ value' = value
  /\ UNCHANGED generatorVars

ToCamelCase ==
  /\ Len(calls) < MaxCalls
  /\ calls' = Append(calls, called("toCamelCase", toCamelCase(value)))
  /\ value' = toCamelCase(value)
  /\ UNCHANGED generatorVars

ToPascalCase ==
  /\ Len(calls) < MaxCalls
  /\ calls' = Append(calls, called("toPascalCase", toPascalCase(value)))
  /\ value' = toPascalCase(value)
  /\ UNCHANGED generatorVars

Pluralize ==
  /\ Len(calls) < MaxCalls
  /\ calls' = Append(calls, called("pluralize", pluralize(value)))
  /\ value' = pluralize(value)
  /\ UNCHANGED generatorVars

Singularize ==
  /\ Len(calls) < MaxCalls
  /\ calls' = Append(calls, called("singularize", singularize(value)))
  /\ value' = singularize(value)
  /\ UNCHANGED generatorVars

GetListQueryName ==
  /\ Len(calls) < MaxCalls
  /\ calls' = Append(calls, called("getListQueryName", getListQueryName(value)))
  /\ value' = value
  /\ UNCHANGED generatorVars

GetSingleQueryName ==
  /\ Len(calls) < MaxCalls
  /\ calls' = Append(calls, called("getSingleQueryName", getSingleQueryName(value)))
  /\ value' = value
  /\ UNCHANGED generatorVars

MapperNext ==
  \/ MapType
  \/ ToCamelCase
  \/ ToPascalCase
  \/ Pluralize
  \/ Singularize
  \/ GetListQueryName
  \/ GetSingleQueryName

MapperSpec ==
  MapperInit /\ [][MapperNext]_vars

(***************************************************************************)
(* The database as it is, for the statement of the properties              *)
(***************************************************************************)
NoDuplicates(seq) ==
  \A i, j \in 1..Len(seq) : i # j => seq[i] # seq[j]

\* The qualified names of the catalog
CatalogNames ==
  { fullNameOf(db[i].schema, db[i].table) : i \in 1..Len(db) }

\* The foreign keys of the catalog table with a qualified name
ForeignKeysOf(name) ==
  LET i == CHOOSE k \in 1..Len(db) : fullNameOf(db[k].schema, db[k].table) = name
  IN  db[i].foreignKeys

ReferencedName(fk) ==
  fullNameOf(fk.referencedSchema, fk.referencedTable)

\* The qualified names the catalog table `name` references
ReferencesOf(name) ==
  { ReferencedName(ForeignKeysOf(name)[k]) : k \in 1..Len(ForeignKeysOf(name)) }

\* The catalog tables reachable from the tables of S by foreign keys
RECURSIVE Reachable(_)
Reachable(S) ==
  LET step == S \cup { r \in CatalogNames : \E t \in S : r \in ReferencesOf(t) }
  IN  IF step = S THEN S ELSE Reachable(step)

AutoIncludeOn ==
  config.generateRelationships /\ config.autoIncludeForeignKeyTables

(***************************************************************************)
(* C1: with generateRelationships and autoIncludeForeignKeyTables enabled   *)
(* and no metadata fetch of the closure failing, the generation set the    *)
(* closure returns is exactly the set of catalog tables reachable from the *)
(* pattern-filtered tables along foreign keys, and no table of the set has *)
(* a foreign key to a catalog table outside the set.                       *)
(***************************************************************************)
C1_ClosureIsReachableSet ==
  (generationSetReady /\ AutoIncludeOn /\ closureFailures = 0) =>
     /\ Range(filteredTables) = Reachable(Range(patternFiltered))
     /\ \A t \in Range(filteredTables) :
          \A r \in ReferencesOf(t) : r \in CatalogNames => r \in Range(filteredTables)

\* The closure has returned a table that no pattern-filtered table references
\* directly: it was reached in two steps or more (A -> B -> C, filter {A}).
C1_Witness ==
  /\ generationSetReady /\ AutoIncludeOn /\ closureFailures = 0
  /\ patternFiltered # <<>>
  /\ \E t \in Range(filteredTables) :
       /\ t \notin Range(patternFiltered)
       /\ \A s \in Range(patternFiltered) : t \notin ReferencesOf(s)

(***************************************************************************)
(* C2: the closure terminates on every catalog and foreign-key graph,      *)
(* cycles and self-references included: it runs at most one iteration per  *)
(* catalog table (the iterations done plus the tables still queued never   *)
(* exceed the size of the catalog), and it fetches the metadata of each    *)
(* table at most once.                                                     *)
(***************************************************************************)
C2_ClosureTerminatesFetchingOnce ==
  /\ NoDuplicates(closureFetches)
  /\ closureIterations + Len(queue) <= Len(allTables)
  /\ Len(closureFetches) <= closureIterations

\* The closure has returned after visiting a table that references itself
\* through at least one other table.
C2_Witness ==
  /\ generationSetReady /\ AutoIncludeOn
  /\ queue = <<>>
  /\ \E t \in Range(filteredTables) :
       /\ t \notin ReferencesOf(t)
       /\ t \in Reachable(ReferencesOf(t) \cap CatalogNames)
       /\ \E i \in 1..Len(closureFetches) :
            fullNameOf(closureFetches[i].schema, closureFetches[i].table) = t

(***************************************************************************)
(* C3: a foreign key whose referenced table is not in the catalog is       *)
(* skipped by the closure: the name is never put in the set returned or on *)
(* the queue, so only catalog tables are in the set, and the fetch that    *)
(* met the dangling reference is not a failed one.                         *)
(***************************************************************************)
C3_DanglingReferenceSkipped ==
  /\ Range(tablesToProcess) \subseteq CatalogNames
  /\ Range(queue) \subseteq CatalogNames
  /\ Range(filteredTables) \subseteq CatalogNames

\* The closure has returned, without a failed fetch, after fetching a table
\* with a foreign key to a table outside the catalog.
C3_Witness ==
  /\ generationSetReady /\ AutoIncludeOn /\ closureFailures = 0
  /\ \E i \in 1..Len(closureFetches) :
       LET t == fullNameOf(closureFetches[i].schema, closureFetches[i].table)
       IN  /\ t \in Range(filteredTables)
           /\ \E r \in ReferencesOf(t) : r \notin CatalogNames

(***************************************************************************)
(* C4: the closure runs only when generateRelationships and                *)
(* autoIncludeForeignKeyTables are both enabled; otherwise the generation  *)
(* set generate() processes is the pattern-filtered set, in catalog order, *)
(* with no table added.                                                    *)
(***************************************************************************)
\* The catalog names selected by the configured patterns, in catalog order
RECURSIVE SelectedFrom(_)
SelectedFrom(rows) ==
  IF rows = <<>> THEN <<>>
  ELSE LET name == fullNameOf(Head(rows).schema, Head(rows).table)
       IN  (IF config.tables = <<>>
               \/ \E k \in 1..Len(config.tables) : matchTablePattern(name, config.tables[k])
              THEN << name >> ELSE <<>>)
           \o SelectedFrom(Tail(rows))

RECURSIVE WarningsAbout(_, _)
WarningsAbout(log, name) ==
  IF log = <<>> THEN <<>>
  ELSE (IF Head(log).table = name THEN << Head(log) >> ELSE <<>>)
       \o WarningsAbout(Tail(log), name)

\* One warning per foreign key of fks that leaves the generation set
RECURSIVE WarningsDue(_, _)
WarningsDue(name, fks) ==
  IF fks = <<>> THEN <<>>
  ELSE (IF ReferencedName(Head(fks)) \notin Range(filteredTables)
          THEN << [table |-> name, references |-> ReferencedName(Head(fks)),
                   via |-> Head(fks).columnName] >>
          ELSE <<>>)
       \o WarningsDue(name, Tail(fks))

WarningsAsDue ==
  /\ \A t \in fetchedTables : WarningsAbout(console, t) = WarningsDue(t, ForeignKeysOf(t))
  /\ \A i \in 1..Len(console) : console[i].table \in fetchedTables
  /\ \A t \in fetchedTables \ failedTables : t \in Range(processedTables)

\* The claim as stated: whenever auto-include is disabled
C5_WarningsWheneverAutoIncludeOff ==
  ~config.autoIncludeForeignKeyTables => WarningsAsDue

\* The claim amended: when relationship generation is enabled and
\* auto-include is disabled
C5_WarningsWithRelationships ==
  (config.generateRelationships /\ ~config.autoIncludeForeignKeyTables) => WarningsAsDue

\* With relationships on and auto-include off, a table has been processed
\* that has a foreign key leaving the generation set and one staying in it.
C5_Witness ==
  /\ config.generateRelationships /\ ~config.autoIncludeForeignKeyTables
  /\ \E t \in fetchedTables \ failedTables :
       /\ \E k \in 1..Len(ForeignKeysOf(t)) :
            ReferencedName(ForeignKeysOf(t)[k]) \notin Range(filteredTables)
       /\ \E k \in 1..Len(ForeignKeysOf(t)) :
            /\ ReferencedName(ForeignKeysOf(t)[k]) \in Range(filteredTables)
            /\ ReferencedName(ForeignKeysOf(t)[k]) \notin processedTableSet
       /\ Len(WarningsAbout(console, t)) = 1

(***************************************************************************)
(* C6: when auto-include is disabled and the referenced table of a foreign *)
(* key is not in the generation set, the type generated for the            *)
(* referencing table has no relationship field for that foreign key.       *)
(***************************************************************************)
\* The schema file written for a table of the generation set
SchemaFilesOf(name) ==
  { f \in files : f.path = schemaFilePath(toLowerCase(name)) /\ f.content.kind = "schema" }

HasRelationshipField(type, fk) ==
  \E i \in 1..Len(type.fields) :
     /\ type.fields[i].name = relationshipFieldName(fk)
     /\ type.fields[i].type = toPascalCase(fk.referencedTable)

C6_NoFieldForMissingTarget ==
  ~config.autoIncludeForeignKeyTables =>
     \A t \in Range(processedTables) \cap CatalogNames :
        \A f \in SchemaFilesOf(t) :
           \A k \in 1..Len(ForeignKeysOf(t)) :
              ReferencedName(ForeignKeysOf(t)[k]) \notin Range(filteredTables)
                 => ~HasRelationshipField(f.content.type, ForeignKeysOf(t)[k])

(***************************************************************************)
(* C7: a failure while processing one table is caught at the table         *)
(* boundary: the table is not in the processed-table list, the loop goes   *)
(* on so that every table of the generation set is attempted exactly once, *)
(* in order, and generate() does not end before the last of them.          *)
(***************************************************************************)
Occurrences(seq, x) ==
  Cardinality({ i \in 1..Len(seq) : seq[i] = x })

C7_TableFailureIsContained ==
  /\ failedTables \cap Range(processedTables) = {}
  /\ \A t \in failedTables : Occurrences(attempts, t) = 1
  /\ generationSetReady => attempts = SubSeq(filteredTables, 1, index - 1)
  /\ (pc = "exit" /\ generationSetReady) => attempts = filteredTables

\* generate() has completed although a table failed, and a table after the
\* failed one was processed.
C7_Witness ==
  /\ pc = "exit" /\ generateResult = "success"
  /\ \E i, j \in 1..Len(filteredTables) :
       /\ i < j
       /\ filteredTables[i] \in failedTables
       /\ filteredTables[j] \in Range(processedTables)

(***************************************************************************)
(* C8: with filtering disabled, the index document lists exactly the       *)
(* tables processed successfully, each once, in the order of the           *)
(* generation set, by the lower-cased path of the table's document; a      *)
(* table whose processing failed is not listed.                            *)
(***************************************************************************)
\* The tables of a sequence whose processing did not fail, in order
RECURSIVE Succeeded(_)
Succeeded(names) ==
  IF names = <<>> THEN <<>>
  ELSE (IF Head(names) \in failedTables THEN <<>> ELSE << Head(names) >>)
       \o Succeeded(Tail(names))

IndexFiles ==
  { f \in files : f.path = IndexPath }

C8_IndexListsProcessedTables ==
  (generateResult = "success" /\ ~config.filteringEnabled) =>
     /\ Cardinality(IndexFiles) = 1
     /\ \A f \in IndexFiles :
          LET listed == f.content.files
              done == Succeeded(filteredTables)
          IN  /\ Len(listed) = Len(done)
              /\ \A i \in 1..Len(done) :
                   /\ listed[i] = TypesDir \o toLowerCase(done[i]) \o GraphqlExt
                   /\ \E g \in files : g.path = listed[i] /\ g.content.kind = "schema"

\* generate() has completed without filtering, a table failed and two others
\* are listed.
C8_Witness ==
  /\ generateResult = "success" /\ ~config.filteringEnabled
  /\ failedTables # {}
  /\ Len(processedTables) >= 2

(***************************************************************************)
(* C9: a connectivity failure of the metadata provider at any point of     *)
(* generate() is fatal: generate() does not complete and report success.   *)
(***************************************************************************)
C9_ConnectivityFailureIsFatal ==
  connFailure => generateResult # "success"

(***************************************************************************)
(* C10: on every entry path a configuration that lacks server, database,   *)
(* user or password is rejected before any connection attempt.             *)
(***************************************************************************)
C10_ValidatedBeforeConnecting ==
  connectAttempted => validate(config) = "none"

(***************************************************************************)
(* C11: filterTables selects a catalog table if and only if the pattern    *)
(* list is empty or the table's qualified name matches at least one of the *)
(* patterns; the result keeps the catalog order and holds no table twice.  *)
(***************************************************************************)
PositionIn(seq, x) ==
  CHOOSE i \in 1..Len(seq) : seq[i] = x

MatchingPatterns(name) ==
  { k \in 1..Len(config.tables) : matchTablePattern(name, config.tables[k]) }

C11_SelectedIffAnyPatternMatches ==
  /\ \A i \in 1..Len(allTables) :
       allTables[i].fullName \in Range(patternFiltered)
         <=> (config.tables = <<>> \/ MatchingPatterns(allTables[i].fullName) # {})
  /\ Range(patternFiltered) \subseteq Range(fullNames(allTables))
  /\ NoDuplicates(patternFiltered)
  /\ \A i, j \in 1..Len(patternFiltered) :
       i < j => PositionIn(fullNames(allTables), patternFiltered[i])
                  < PositionIn(fullNames(allTables), patternFiltered[j])

\* Two patterns were configured; the catalog holds a table that both match,
\* a table that exactly one matches and a table that none matches.
C11_Witness ==
  /\ Len(config.tables) = 2
  /\ Len(patternFiltered) = 2
  /\ \E i, j, k \in 1..Len(allTables) :
       /\ Cardinality(MatchingPatterns(allTables[i].fullName)) = 2
       /\ Cardinality(MatchingPatterns(allTables[j].fullName)) = 1
       /\ Cardinality(MatchingPatterns(allTables[k].fullName)) = 0

(***************************************************************************)
(* C12: a qualified name schema.table matches a pattern ps.pt if and only  *)
(* if schema matches the glob ps and table matches the glob pt, each       *)
(* case-insensitively and over the whole segment; `*` and `?` never match  *)
(* the `.` separator and a pattern without `.` matches no qualified name.  *)
(***************************************************************************)
\* A glob over one segment: `*` is any sequence of characters, `?` is one
\* character, every other character is itself, whatever its case
RECURSIVE GlobMatches(_, _)
GlobMatches(glob, segment) ==
  IF glob = <<>> THEN segment = <<>>
  ELSE IF Head(glob) = "*"
    THEN \E n \in 0..Len(segment) :
            GlobMatches(Tail(glob), SubSeq(segment, n + 1, Len(segment)))
  ELSE /\ segment # <<>>
       /\ Head(glob) = "?" \/ toLowerChar(Head(glob)) = toLowerChar(Head(segment))
       /\ GlobMatches(Tail(glob), Tail(segment))

QualifiedGlobMatches(schema, table, pattern) ==
  LET segments == split(pattern, ".")
  IN  /\ Len(segments) = 2
      /\ GlobMatches(segments[1], schema)
      /\ GlobMatches(segments[2], table)

C12_GlobsMatchSegmentBySegment ==
  \A i \in 1..Len(allTables) :
     \A k \in 1..Len(config.tables) :
        matchTablePattern(allTables[i].fullName, config.tables[k])
          <=> QualifiedGlobMatches(allTables[i].schema, allTables[i].table,
                                   config.tables[k])

(***************************************************************************)
(* The documents generate() has written, seen from the catalog             *)
(***************************************************************************)
GeneratedDocuments ==
  { f \in files : f.content.kind = "schema" }

\* The catalog table a document was written for
RowOf(f) ==
  db[CHOOSE i \in 1..Len(db) :
       schemaFilePath(toLowerCase(fullNameOf(db[i].schema, db[i].table))) = f.path]

\* The field generateType made for foreign key k of the table of f
ForwardField(f, k) ==
  f.content.type.fields[Len(RowOf(f).columns) + k]

\* The names the examples of the specification expect
LAST_EDITED_BY ==
  <<"L","a","s","t","E","d","i","t","e","d","B","y">>

PEOPLE ==
  <<"P","e","o","p","l","e">>

LAST_EDITED_BY_PEOPLE ==
  <<"l","a","s","t","E","d","i","t","e","d","B","y","P","e","o","p","l","e">>

ORDER ==
  <<"O","r","d","e","r">>

CUSTOMER_FIELD ==
  <<"c","u","s","t","o","m","e","r">>

CUSTOMER_TYPE ==
  <<"C","u","s","t","o","m","e","r">>

CUSTOMER_ID ==
  <<"c","u","s","t","o","m","e","r","I","d">>

(***************************************************************************)
(* C13: the forward relationship field of a foreign key is named by the    *)
(* camel-cased column name (the base name) with the first of the suffixes  *)
(* Id, ID, _id, _ID that ends it removed, one suffix at most, followed by  *)
(* the PascalCase name of the referenced table; its type is the referenced *)
(* type and it is nullable.                                                *)
(***************************************************************************)
StripOneSuffix(base) ==
  IF endsWith(base, <<"I","d">>) THEN SubSeq(base, 1, Len(base) - 2)
  ELSE IF endsWith(base, <<"I","D">>) THEN SubSeq(base, 1, Len(base) - 2)
  ELSE IF endsWith(base, <<"_","i","d">>) THEN SubSeq(base, 1, Len(base) - 3)
  ELSE IF endsWith(base, <<"_","I","D">>) THEN SubSeq(base, 1, Len(base) - 3)
  ELSE base

C14_LastEditedByPeople ==
  config.generateRelationships =>
    \A f \in GeneratedDocuments :
       \A k \in 1..Len(RowOf(f).foreignKeys) :
          (/\ RowOf(f).foreignKeys[k].columnName = LAST_EDITED_BY
           /\ RowOf(f).foreignKeys[k].referencedTable = PEOPLE)
            => ForwardField(f, k).name = LAST_EDITED_BY_PEOPLE

(***************************************************************************)
(* C15: for Customer(CustomerId PK, Name) and Order(OrderId PK, CustomerId *)
(* FK to Customer, Total) with relationships enabled, the document of      *)
(* Order has a field `customer` of type `Customer` with a materializer     *)
(* calling query `customer` with argument `customerId` bound to field      *)
(* `customerId`.                                                           *)
(***************************************************************************)
C15_OrderHasCustomerField ==
  (db = CustomerOrderDb /\ config.generateRelationships) =>
    \A f \in GeneratedDocuments :
       RowOf(f).table = ORDER =>
         \E i \in 1..Len(f.content.document.typeDefinition.fields) :
            f.content.document.typeDefinition.fields[i] =
              [name         |-> CUSTOMER_FIELD,
               type         |-> CUSTOMER_TYPE,
               materializer |-> << [query    |-> CUSTOMER_FIELD,
                                    argument |-> CUSTOMER_ID,
                                    field    |-> CUSTOMER_ID] >>]

(***************************************************************************)
(* C16: every forward relationship field is annotated with a link to the   *)
(* single-record query of the referenced table, whose argument is the      *)
(* referenced column and whose bound field is the column of that same      *)
(* foreign key, also when several foreign keys reference the same table.   *)
(***************************************************************************)
C16_FieldBoundToItsOwnColumn ==
  config.generateRelationships =>
    \A f \in GeneratedDocuments :
       \A k \in 1..Len(RowOf(f).foreignKeys) :
          LET fk == RowOf(f).foreignKeys[k]
              line == f.content.document.typeDefinition.fields[Len(RowOf(f).columns) + k]
          IN  line.materializer =
                << [query    |-> getSingleQueryName(fk.referencedTable),
                    argument |-> toCamelCase(fk.referencedColumn),
                    field    |-> toCamelCase(fk.columnName)] >>

(***************************************************************************)
(* C17: when two foreign keys of a table reference the same table and      *)
(* derive the same forward-field name, the later overwrites the earlier:   *)
(* the generated type has a single field with that name.                   *)
(***************************************************************************)
FieldsNamed(fields, name) ==
  { i \in 1..Len(fields) : fields[i].name = name }

C17_LaterForeignKeyOverwrites ==
  config.generateRelationships =>
    \A f \in GeneratedDocuments :
       \A j, k \in 1..Len(RowOf(f).foreignKeys) :
          LET fkj == RowOf(f).foreignKeys[j]
              fkk == RowOf(f).foreignKeys[k]
          IN  (/\ j < k
               /\ ReferencedName(fkj) = ReferencedName(fkk)
               /\ relationshipFieldName(fkj) = relationshipFieldName(fkk))
                => Cardinality(FieldsNamed(f.content.type.fields,
                                           relationshipFieldName(fkk))) = 1

(***************************************************************************)
(* C18: for every foreign key whose referenced table is in the generation  *)
(* set, the referenced type gets a reverse list field returning the child  *)
(* type, and exactly one query named <childListName>By<FkColumnPascal> is  *)
(* generated.                                                              *)
(***************************************************************************)
ReverseQueryName(child, fk) ==
  getListQueryName(child.table) \o <<"B","y">> \o toPascalCase(fk.columnName)

QueriesNamed(name) ==
  { q \in UNION { { << f.path, i >> : i \in 1..Len(f.content.document.Query) }
                    : f \in GeneratedDocuments } :
      LET f == CHOOSE g \in GeneratedDocuments : g.path = q[1]
      IN  f.content.document.Query[q[2]].name = name }

C18_ReverseFieldAndQuery ==
  (generateResult = "success" /\ config.generateRelationships /\ failedTables = {}) =>
    \A f \in GeneratedDocuments :
       \A k \in 1..Len(RowOf(f).foreignKeys) :
          LET child == RowOf(f)
              fk == child.foreignKeys[k]
          IN  ReferencedName(fk) \in Range(filteredTables) \cap CatalogNames =>
                /\ \E g \in GeneratedDocuments :
                     /\ fullNameOf(RowOf(g).schema, RowOf(g).table) = ReferencedName(fk)
                     /\ \E i \in 1..Len(g.content.document.typeDefinition.fields) :
                          LET line == g.content.document.typeDefinition.fields[i]
                          IN  /\ line.name = getListQueryName(child.table)
                              /\ line.type = << "[" >> \o toPascalCase(child.table) \o << "]" >>
                /\ Cardinality(QueriesNamed(ReverseQueryName(child, fk))) = 1

Placeholders(dbQuery) ==
  { i \in 1..Len(dbQuery) : dbQuery[i] = "?" }

PrimaryKeyColumn(row) ==
  row.columns[CHOOSE i \in 1..Len(row.columns) : row.columns[i].name = row.primaryKeys[1]]

C20_ListThenSingleByPrimaryKey ==
  \A f \in GeneratedDocuments :
     LET row == RowOf(f)
         queries == f.content.queries
         rendered == f.content.document.Query
         typeName == toPascalCase(row.table)
     IN  /\ Len(queries) = (IF row.primaryKeys = <<>> THEN 1 ELSE 2)
         /\ Len(rendered) = Len(queries)
         /\ queries[1].name = getListQueryName(row.table)
         /\ queries[1].returnType = << "[" >> \o typeName \o << "]" >>
         /\ rendered[1].name = queries[1].name
         /\ rendered[1].returnType = queries[1].returnType
         /\ row.primaryKeys # <<>> =>
              /\ queries[2].name = getSingleQueryName(row.table)
              /\ queries[2].returnType = typeName
              /\ queries[2].arguments =
                   << [name     |-> toCamelCase(row.primaryKeys[1]),
                       type     |-> mapType(PrimaryKeyColumn(row).dataType),
                       required |-> TRUE] >>
              /\ Cardinality(Placeholders(queries[2].dbQuery)) = 1
              /\ rendered[2].name = queries[2].name
              /\ rendered[2].returnType = typeName
              /\ rendered[2].arguments =
                   << [name |-> toCamelCase(row.primaryKeys[1]),
                       type |-> mapType(PrimaryKeyColumn(row).dataType) \o << "!" >>] >>
              /\ rendered[2].dbquery.value = queries[2].dbQuery

\* Documents were generated for a table without a primary key and for a
\* table with a composite one.
C20_Witness ==
  \E f, g \in GeneratedDocuments :
     /\ RowOf(f).primaryKeys = <<>>
     /\ Len(f.content.queries) = 1
     /\ Len(RowOf(g).primaryKeys) = 2
     /\ Len(g.content.queries) = 2

(***************************************************************************)
(* The static helpers of TypeMapper                                        *)
(***************************************************************************)
\* The calls of one helper made so far
CallsOf(fn) ==
  { calls[i] : i \in { j \in 1..Len(calls) : calls[j].fn = fn } }

\* The scalar names the static table holds
ScalarNames ==
  { TYPE_MAP[i].value : i \in 1..Len(TYPE_MAP) }

TypeKeys ==
  { TYPE_MAP[i].key : i \in 1..Len(TYPE_MAP) }

STRING_SCALAR ==
  <<"S","t","r","i","n","g">>

\* C21: mapType is total and fail-open: every call returns one of the scalar
\* names of the static table, the result is the same for the lower-cased
\* spelling of the type name, and a name that is no key of the table maps to
\* String; no call returns a value that is not a scalar name.
C21_MapTypeReturnsScalar ==
  \A c \in CallsOf("mapType") :
    /\ c.result \in ScalarNames
    /\ c.result = mapType(toLowerCase(c.arg))
    /\ toLowerCase(c.arg) \notin TypeKeys => c.result = STRING_SCALAR

\* An identifier of one segment: not empty, no underscore
SingleSegment(x) ==
  x # <<>> /\ ~includes(x, "_")

\* The pairs of calls where a conversion is called again with its own result
Reapplications(fn) ==
  { i \in 1..(Len(calls) - 1) :
      /\ calls[i].fn = fn
      /\ calls[i + 1].fn = fn
      /\ calls[i + 1].arg = calls[i].result
      /\ SingleSegment(calls[i].arg) }

\* The upper-case form of the first character is one character
UpperCasesToOneCharacter(x) ==
  Len(toUpperCase(charAt0(x))) = 1

\* C22 (as stated): for every non-empty identifier without underscore,
\* toCamelCase and toPascalCase called again with their own result return
\* that result.
C22_CamelAndPascalIdempotent ==
  \A fn \in { "toCamelCase", "toPascalCase" } :
    \A i \in Reapplications(fn) : calls[i + 1].result = calls[i].result

\* C22 (amended): for every non-empty identifier without underscore,
\* toCamelCase called again with its own result returns that result, and so
\* does toPascalCase when the upper-case form of the identifier's first
\* character is a single character.
C22_IdempotentOnSingleUpperCase ==
  /\ \A i \in Reapplications("toCamelCase") :
       calls[i + 1].result = calls[i].result
  /\ \A i \in Reapplications("toPascalCase") :
       UpperCasesToOneCharacter(calls[i].arg)
         => calls[i + 1].result = calls[i].result

\* Both conversions have been called again with their own result, each on an
\* identifier the first call changed
C22_Witness ==
  \E i \in Reapplications("toCamelCase") :
    \E j \in Reapplications("toPascalCase") :
      /\ calls[i].result # calls[i].arg
      /\ calls[j].result # calls[j].arg
      /\ UpperCasesToOneCharacter(calls[j].arg)

\* A lower-case word: not empty, letters a to z only
LowerCaseWord(x) ==
  x # <<>> /\ \A i \in 1..Len(x) : IsLower(x[i])

\* A regular noun as the sentence defines it
RegularNoun(x) ==
  /\ LowerCaseWord(x)
  /\ \A suffix \in { <<"s">>, <<"x">>, <<"c","h">>, <<"s","h">>, <<"y">> } :
       ~endsWith(x, suffix)

\* The positions where pluralize is called and singularize is called next
\* with its result
RoundTrips ==
  { i \in 1..(Len(calls) - 1) :
      /\ calls[i].fn = "pluralize"
      /\ calls[i + 1].fn = "singularize"
      /\ calls[i + 1].arg = calls[i].result }

\* The round trip from position i gives the singular back, and pluralize
\* called next with that singular gives the plural back
RoundTripFrom(i) ==
  /\ calls[i + 1].result = calls[i].arg
  /\ ( /\ i + 2 <= Len(calls)
       /\ calls[i + 2].fn = "pluralize"
       /\ calls[i + 2].arg = calls[i + 1].result )
     => calls[i + 2].result = calls[i].result

\* C23 (as stated): for every lower-case word x that does not end in s, x,
\* ch, sh or y, singularize(pluralize(x)) = x and, for p = pluralize(x),
\* pluralize(singularize(p)) = p.
C23_PluralizeSingularizeInverse ==
  \A i \in RoundTrips : RegularNoun(calls[i].arg) => RoundTripFrom(i)

\* C23 (amended): the same for every lower-case word that does not end in
\* e, s, x, ch, sh or y.
C23_InverseUnlessEndingInE ==
  \A i \in RoundTrips :
    (RegularNoun(calls[i].arg) /\ ~endsWith(calls[i].arg, <<"e">>))
      => RoundTripFrom(i)

\* A word such as ord has gone through pluralize, singularize and pluralize
C23_Witness ==
  \E i \in RoundTrips :
    /\ RegularNoun(calls[i].arg)
    /\ ~endsWith(calls[i].arg, <<"e">>)
    /\ i + 2 <= Len(calls)
    /\ calls[i + 2].fn = "pluralize"
    /\ calls[i + 2].arg = calls[i + 1].result
    /\ calls[i].result # calls[i].arg

\* A letter that is no vowel
IsConsonant(c) ==
  (IsLower(c) \/ IsUpper(c)) /\ ~isVowel(<< c >>)

\* The character before the last one is a vowel
VowelBeforeLast(name) ==
  Len(name) >= 2 /\ isVowel(<< name[Len(name) - 1] >>)

EndsInSibilant(name) ==
  \E suffix \in { <<"s">>, <<"x">>, <<"c","h">>, <<"s","h">> } :
    endsWith(name, suffix)

\* The plural as the sentence words it: es after s, x, ch, sh; ies for a
\* final y preceded by a consonant; s otherwise
PluralAsStated(name) ==
  IF EndsInSibilant(name) THEN name \o <<"e","s">>
  ELSE IF /\ endsWith(name, <<"y">>)
          /\ Len(name) >= 2
          /\ IsConsonant(name[Len(name) - 1])
    THEN SubSeq(name, 1, Len(name) - 1) \o <<"i","e","s">>
  ELSE name \o <<"s">>

\* The plural with ies for every final y that no vowel precedes
PluralUnlessVowel(name) ==
  IF EndsInSibilant(name) THEN name \o <<"e","s">>
  ELSE IF endsWith(name, <<"y">>) /\ ~VowelBeforeLast(name)
    THEN SubSeq(name, 1, Len(name) - 1) \o <<"i","e","s">>
  ELSE name \o <<"s">>

\* lowerFirst(toPascal(t))
SingleNameOf(t) ==
  lowerFirst(toPascalCase(t))

\* C24 (as stated): the single query name of a table is
\* lowerFirst(toPascal(t)), the list query name is the plural of that name
\* (es after s, x, ch, sh; ies for a final y preceded by a consonant;
\* s otherwise), pluralize itself forms that plural, and the two query names
\* of one table differ.
C24_QueryNamesAsStated ==
  /\ \A c \in CallsOf("getSingleQueryName") : c.result = SingleNameOf(c.arg)
  /\ \A c \in CallsOf("getListQueryName") :
       /\ c.result = PluralAsStated(SingleNameOf(c.arg))
       /\ c.result # SingleNameOf(c.arg)
  /\ \A c \in CallsOf("pluralize") : c.result = PluralAsStated(c.arg)

\* C24 (amended): the same with ies for every final y that is not preceded
\* by a vowel.
C24_QueryNamesPluralUnlessVowel ==
  /\ \A c \in CallsOf("getSingleQueryName") : c.result = SingleNameOf(c.arg)
  /\ \A c \in CallsOf("getListQueryName") :
       /\ c.result = PluralUnlessVowel(SingleNameOf(c.arg))
       /\ c.result # SingleNameOf(c.arg)
  /\ \A c \in CallsOf("pluralize") : c.result = PluralUnlessVowel(c.arg)

\* Both query names of one table whose single name ends in a consonant and y
\* have been computed, and the list name ends in ies
C24_Witness ==
  \E c \in CallsOf("getSingleQueryName") :
    \E d \in CallsOf("getListQueryName") :
      /\ c.arg = d.arg
      /\ c.result # c.arg
      /\ endsWith(c.result, <<"y">>)
      /\ Len(c.result) >= 2
      /\ IsConsonant(c.result[Len(c.result) - 1])
      /\ endsWith(d.result, <<"i","e","s">>)

(***************************************************************************)
(* The dry run                                                             *)
(***************************************************************************)
DryRunning ==
  command = "generate" /\ dryRun

\* C25: in dry-run mode the generate command writes and deletes nothing:
\* generate() is never invoked (no step of it is taken and it has no
\* result), the output directory holds what it held before the run, and the
\* command only tests the connection and lists the tables.
C25_DryRunWritesNothing ==
  DryRunning =>
    /\ files = { StaleFile }
    /\ generateResult = "none"
    /\ pc \in { "testConnection", "listTables", "exit" }
    /\ allTables = <<>>
    /\ attempts = <<>>
    /\ processedTables = <<>>

\* A dry run has tested the connection, listed the tables and ended
C25_Witness ==
  /\ DryRunning
  /\ pc = "exit"
  /\ exitCode = 0
  /\ connectAttempted
  /\ db # <<>>

(***************************************************************************)
(* The generation set during a run                                         *)
(***************************************************************************)
\* The set holds the pattern-filtered tables and every table the closure
\* has visited; once it is final it also holds every table that failed
GenerationSetHoldsItsTables ==
  /\ pc = "closure" =>
       /\ Range(patternFiltered) \subseteq Range(tablesToProcess)
       /\ processed \subseteq Range(tablesToProcess)
  /\ generationSetReady =>
       /\ Range(patternFiltered) \subseteq Range(filteredTables)
       /\ Range(tablesToProcess) \subseteq Range(filteredTables)
       /\ failedTables \subseteq Range(filteredTables)
       /\ failedTables \cap Range(processedTables) = {}

\* A step of the closure only adds tables, and a step of the loop leaves the
\* set as it is
GenerationSetOnlyGrows ==
  /\ pc = "closure" => Range(tablesToProcess) \subseteq Range(tablesToProcess')
  /\ generationSetReady => filteredTables' = filteredTables

\* C26: the generation set never shrinks during a run: the tables of the
\* initially filtered set are in it at every step of the closure and in its
\* result, every step of the closure only adds tables, every table the
\* closure has visited is in it, and a table whose processing fails stays in
\* it and is only left out of the list of processed tables.
C26_GenerationSetNeverShrinks ==
  [] GenerationSetHoldsItsTables /\ [][GenerationSetOnlyGrows]_vars

\* The closure has added a table to the filtered ones, the processing of a
\* table of the set has failed, and the run has ended
C26_Witness ==
  /\ pc = "exit" /\ generateResult = "success"
  /\ Len(filteredTables) > Len(patternFiltered)
  /\ patternFiltered # <<>>
  /\ failedTables # {}

(***************************************************************************)
(* A failing metadata fetch in the closure                                 *)
(***************************************************************************)
\* The catalog tables reachable from the tables of S by the foreign keys of
\* the tables whose fetch did not fail
RECURSIVE ReachableThroughFetched(_)
ReachableThroughFetched(S) ==
  LET step == S \cup { r \in CatalogNames :
                         \E t \in S \ closureFailedTables : r \in ReferencesOf(t) }
  IN  IF step = S THEN S ELSE ReachableThroughFetched(step)

\* The failing tables are in the set and the closure is still running or
\* has returned; what it returned is what the fetched tables lead to, and
\* every table of it has been visited
FailedFetchIsSkipped ==
  /\ closureFailedTables \subseteq Range(tablesToProcess)
  /\ closureFailedTables \subseteq processed
  /\ pc = "closure" => generateResult = "none" /\ exitCode = -1
  /\ (generationSetReady /\ AutoIncludeOn) =>
       /\ closureFailedTables \subseteq Range(filteredTables)
       /\ Range(filteredTables) = ReachableThroughFetched(Range(patternFiltered))
       /\ processed = Range(filteredTables)
       /\ { fullNameOf(closureFetches[i].schema, closureFetches[i].table) :
              i \in 1..Len(closureFetches) } = Range(filteredTables)

\* The closure is left by its return only
ClosureReturnsNormally ==
  pc = "closure" => pc' \in { "closure", "process" }

\* C27: a metadata fetch that fails during the foreign-key closure does not
\* abort it: the failing table stays in the generation set, its foreign keys
\* are not followed, the tables still queued are visited, and the closure
\* returns normally.
C27_ClosureSurvivesFailedFetch ==
  [] FailedFetchIsSkipped /\ [][ClosureReturnsNormally]_vars

\* The closure has returned after a fetch failed: the failing table
\* references a catalog table that was not added, and a table queued behind
\* it was fetched
C27_Witness ==
  /\ generationSetReady /\ AutoIncludeOn
  /\ \E i, j \in 1..Len(closureFetches) :
       LET failing == fullNameOf(closureFetches[i].schema, closureFetches[i].table)
           later == fullNameOf(closureFetches[j].schema, closureFetches[j].table)
       IN  /\ i < j
           /\ failing \in closureFailedTables
           /\ \E r \in ReferencesOf(failing) :
                r \in CatalogNames /\ r \notin Range(filteredTables)
           /\ later \notin closureFailedTables

(***************************************************************************)
(* The connection at the end of generate()                                 *)
(***************************************************************************)
\* C28: whenever generate() has terminated, by returning or by failing with
\* an error, its connection is closed: if connect() failed none was opened,
\* and if it succeeded disconnect() has been called.
C28_ConnectionClosedAfterGenerate ==
  (pc = "exit" /\ generateResult \in { "success", "error" }) => pool = "null"

(***************************************************************************)
(* Qualified names that differ in letter case or contain a dot             *)
(***************************************************************************)
\* The tables processed successfully (the entry of the shared filter types
\* left out)
ProcessedTableNames ==
  Range(processedTables) \ { FiltersName }

\* The entries of the index that name a per-table file
TableEntries(listed) ==
  SelectSeq(listed, LAMBDA path : path # schemaFilePath(FiltersName))

\* C29: distinct tables of the generation set are written to distinct
\* per-table files: two processed tables never share a file path, so when
\* generate() has completed there are as many per-table files as table
\* entries in the index, also for names that differ in letter case only.
C29_DistinctTablesDistinctFiles ==
  /\ \A t, u \in ProcessedTableNames :
       t # u => schemaFilePath(toLowerCase(t)) # schemaFilePath(toLowerCase(u))
  /\ generateResult = "success" =>
       \A f \in IndexFiles :
         Len(TableEntries(f.content.files)) = Cardinality(GeneratedDocuments)

\* The processed tables no other processed table shares its file with
OwnFile(t) ==
  \A u \in ProcessedTableNames :
    u # t => schemaFilePath(toLowerCase(u)) # schemaFilePath(toLowerCase(t))

\* C30: for every catalog entry (schema, table), splitting its qualified
\* name gives that schema and that table back, in the closure and in the
\* processing loop: every pair the closure fetches is that of a table of its
\* set, and the document of a processed table is the one generated from the
\* metadata of the catalog table of that name, also when a name holds a dot.
C30_SplitYieldsCatalogPair ==
  /\ \A i \in 1..Len(allTables) :
       splitTableName(allTables[i].fullName)
         = [schema |-> allTables[i].schema, table |-> allTables[i].table]
  /\ \A i \in 1..Len(closureFetches) :
       /\ fullNameOf(closureFetches[i].schema, closureFetches[i].table)
            \in Range(tablesToProcess)
       /\ \E k \in 1..Len(db) :
            /\ db[k].schema = closureFetches[i].schema
            /\ db[k].table = closureFetches[i].table
  /\ \A k \in 1..Len(db) :
       LET t == fullNameOf(db[k].schema, db[k].table)
       IN  (t \in ProcessedTableNames /\ OwnFile(t)) =>
             \A f \in SchemaFilesOf(t) :
               f.content = schemaContent(getTableInfo(db, db[k].table, db[k].schema),
                                         config.generateRelationships,
                                         config.filteringEnabled)

====
